---- MODULE Spec2Model ----
(***************************************************************************)
(* Model of pygluu.containerlib.persistence: the Couchbase facade          *)
(* (couchbase.py: BaseClient, RestClient, N1qlClient, CouchbaseClient,     *)
(* build_n1ql_request_body) and the relational client (sql.py: SQLClient   *)
(* and its two dialect adapters).                                          *)
(*                                                                         *)
(* Python strings that the code takes apart (the comma-separated host      *)
(* list) are sequences of one-character strings; the unset host "" is the  *)
(* empty sequence.  Python values that are JSON-encoded are tagged records *)
(* [t |-> type, v |-> payload]; a dict is the sequence of its (key, value) *)
(* pairs in insertion order.                                               *)
(***************************************************************************)
EXTENDS Integers, Sequences, FiniteSets, TLC

VARIABLES
    hosts,          \* CouchbaseClient.hosts: the raw comma-separated host list
    rest_cli,       \* CouchbaseClient._rest_client
    n1ql_cli,       \* CouchbaseClient._n1ql_client
    op,             \* name of the last facade/client operation ("init" before any)
    oc,             \* what healthcheck would report for each entry of the host
                    \* list during the last operation (<<>> if it resolved nothing)
    http,           \* the HTTP requests the last operation issued, in order
    resp,           \* the response the server gave to the last exec_api request
    result,         \* how the last operation left: returned value or raised error
    call,           \* the arguments the caller gave to the last operation
    built,          \* what build_n1ql_request_body returned for `call`
    sql_cli,        \* the SQLClient: its adapter, _engine and _metadata
    db,             \* the database: each existing table and its declared columns
    sql,            \* the SQL statements the last operation executed, in order
    dberr,          \* the error the database raised in the last operation, if any
    env,            \* os.environ: the variables that are set, name -> value
    fs,             \* the files that exist, path -> content
    written,        \* what the last render operation wrote to its destination
    secret,         \* manager.secret: the secrets that are stored, name -> value
    log             \* the warnings the last operation logged, in order


-----------------------------------------------------------------------------
(* Bounds *)

\* longest raw host string given to a client that is resolved on its own
MaxHostsLen == 3
\* most entries in the host list given to the facade
MaxHosts == 2
\* most positional arguments given to build_n1ql_request_body
MaxArgs == 2

HostChars == {"a", "b", ",", " "}

RECURSIVE SeqsUpTo(_, _)
SeqsUpTo(S, n) ==
    IF n = 0 THEN {<<>>}
    ELSE LET shorter == SeqsUpTo(S, n - 1)
         IN shorter \cup {Append(s, c) : s \in {t \in shorter : Len(t) = n - 1}, c \in S}

RawHosts == SeqsUpTo(HostChars, MaxHostsLen)

HostNames == {<<"a">>, <<"b">>}

RECURSIVE JoinHosts(_)
\* the names written as one string, separated by ", "
JoinHosts(names) ==
    IF names = <<>> THEN <<>>
    ELSE IF Len(names) = 1 THEN names[1]
    ELSE names[1] \o <<",", " ">> \o JoinHosts(Tail(names))

\* the host strings given to the facade: up to MaxHosts names
FacadeHosts == {JoinHosts(names) : names \in SeqsUpTo(HostNames, MaxHosts)}

\* healthcheck of one host: a success response, a non-success response
\* (resp.ok false), or an exception raised by the transport
HealthStatus == {"ok", "notok", "raise"}

\* outcome of one exec_api request: success with a JSON body, success with a
\* body that is not JSON, non-success response (body not JSON, or JSON),
\* transport exception
ExecStatus == {"ok_json", "ok_text", "notok", "notok_json", "raise"}

-----------------------------------------------------------------------------
(* Python values and json.dumps / json.loads *)

PyInt(n)  == [t |-> "int", v |-> n]
PyStr(s)  == [t |-> "str", v |-> s]
PyNone    == [t |-> "none", v |-> 0]
PyList(s) == [t |-> "list", v |-> s]
PyDict(s) == [t |-> "dict", v |-> s]

RECURSIVE json_dumps(_)
RECURSIVE json_items(_, _)
\* items of a list (dict = FALSE) or of a dict (dict = TRUE), separated by ", "
json_items(s, dict) ==
    IF s = <<>> THEN ""
    ELSE LET one == IF dict
                    THEN "\"" \o s[1][1] \o "\": " \o json_dumps(s[1][2])
                    ELSE json_dumps(s[1])
         IN one \o (IF Len(s) > 1 THEN ", " ELSE "") \o json_items(Tail(s), dict)

json_dumps(x) ==
    CASE x.t = "int"  -> ToString(x.v)
      [] x.t = "str"  -> "\"" \o x.v \o "\""
      [] x.t = "none" -> "null"
      [] x.t = "list" -> "[" \o json_items(x.v, FALSE) \o "]"
      [] x.t = "dict" -> "{" \o json_items(x.v, TRUE) \o "}"

-----------------------------------------------------------------------------
(* The process environment, the file system and pygluu.containerlib.utils *)

\* no environment variable set; no file present
NoEnv == [name \in {} |-> ""]
NoFiles == [path \in {} |-> <<>>]

\* manager.secret with nothing stored but the salt
NoSecrets == [name \in {"encoded_salt"} |-> "salt"]

\* manager.secret.get(name): None (here "") when nothing is stored
secret_get(store, name) == IF name \in DOMAIN store THEN store[name] ELSE ""

\* manager.secret.set(name, value)
secret_set(store, name, value) ==
    [n \in DOMAIN store \cup {name} |-> IF n = name THEN value ELSE store[n]]

\* a variable that is not set, or set to one of the values
Opt(values) == {<<>>} \cup {<<v>> : v \in values}

\* os.environ with the variables that `assigned` gives a value
Environ(assigned) ==
    [name \in {n \in DOMAIN assigned : assigned[n] # <<>>} |-> assigned[name][1]]

PyBool(b) == [t |-> "bool", v |-> b]

\* os.environ.get(name, default): the value is a str when the variable is set
environ_get(name, default) ==
    IF name \in DOMAIN env THEN PyStr(env[name]) ELSE default

\* os.environ.get(name): None when the variable is not set
environ_get_or_none(name) == environ_get(name, PyNone)

\* utils.as_boolean: true for the truthy spellings, false for anything else
as_boolean(val) ==
    val \in {PyStr("t"), PyStr("T"), PyStr("true"), PyStr("True"), PyStr("TRUE"),
             PyStr("1"), PyInt(1), PyBool(TRUE)}

\* utils.encode_text(text, key): the text encrypted under the key
encode_text(text, key) == [encoded |-> text, key |-> key]

-----------------------------------------------------------------------------
(* couchbase.py: configuration helpers *)

\* the logical bucket names and what each maps, in the order of the dict
BucketMappings ==
    << <<"default", "">>, <<"user", "people, groups, authorizations">>,
       <<"cache", "cache">>, <<"site", "cache-refresh">>,
       <<"token", "tokens">>, <<"session", "sessions">> >>

\* prefixed_couchbase_mappings: name -> {"bucket": ..., "mapping": ...}
prefixed_couchbase_mappings ==
    LET prefix == environ_get("GLUU_COUCHBASE_BUCKET_PREFIX", PyStr("gluu")).v
    IN [i \in 1..Len(BucketMappings) |->
          <<BucketMappings[i][1],
            [bucket  |-> IF BucketMappings[i][1] = "default" THEN prefix
                         ELSE prefix \o "_" \o BucketMappings[i][1],
             mapping |-> BucketMappings[i][2]]>>]

\* get_couchbase_mappings that drops the entry whatever the persistence type
get_couchbase_mappings_any_type(persistence_type, ldap_mapping) ==
    SelectSeq(prefixed_couchbase_mappings, LAMBDA e : e[1] # ldap_mapping)

\* get_couchbase_mappings(persistence_type, ldap_mapping)
get_couchbase_mappings(persistence_type, ldap_mapping) ==
    LET mappings == prefixed_couchbase_mappings
    IN IF persistence_type = "hybrid"
       THEN SelectSeq(mappings, LAMBDA e : e[1] # ldap_mapping)
       ELSE mappings

\* get_couchbase_scan_consistency that returns the variable as it is
get_couchbase_scan_consistency_unchecked ==
    environ_get("GLUU_COUCHBASE_SCAN_CONSISTENCY", PyStr("not_bounded")).v

\* get_couchbase_scan_consistency
get_couchbase_scan_consistency ==
    LET opts == {"not_bounded", "request_plus", "statement_plus"}
        default == "not_bounded"
        opt == environ_get("GLUU_COUCHBASE_SCAN_CONSISTENCY", PyStr(default)).v
    IN IF opt \notin opts THEN default ELSE opt

\* get_couchbase_user
get_couchbase_user == environ_get("GLUU_COUCHBASE_USER", PyStr("admin")).v

RECURSIVE join(_, _)
\* sep.join(items) for a list of str
join(sep, items) ==
    IF items = <<>> THEN ""
    ELSE IF Len(items) = 1 THEN items[1]
    ELSE items[1] \o sep \o join(sep, Tail(items))

RECURSIVE str_of(_)
\* the str made of the characters read from a file
str_of(chars) == IF chars = <<>> THEN "" ELSE chars[1] \o str_of(Tail(chars))

-----------------------------------------------------------------------------
(* BaseClient.resolve_host: the host list *)

RECURSIVE split(_)
\* str.split(","): the pieces between the commas, empty pieces included
split(s) ==
    IF \A i \in 1..Len(s) : s[i] # "," THEN <<s>>
    ELSE LET i == CHOOSE k \in 1..Len(s) : s[k] = "," /\ \A j \in 1..(k - 1) : s[j] # ","
         IN <<SubSeq(s, 1, i - 1)>> \o split(SubSeq(s, i + 1, Len(s)))

\* the characters str.strip() removes
Whitespace == {" ", "\n", "\t"}

RECURSIVE strip(_)
\* str.strip(): leading and trailing whitespace removed, inner whitespace kept
strip(s) ==
    IF s = <<>> THEN s
    ELSE IF s[1] \in Whitespace THEN strip(Tail(s))
    ELSE IF s[Len(s)] \in Whitespace THEN strip(SubSeq(s, 1, Len(s) - 1))
    ELSE s

\* filter(None, map(lambda host: host.strip(), self._hosts.split(",")))
HostList(raw) ==
    LET pieces == split(raw)
        stripped == [i \in 1..Len(pieces) |-> strip(pieces[i])]
    IN SelectSeq(stripped, LAMBDA h : h # <<>>)

-----------------------------------------------------------------------------
(* Service clients *)

\* no client object yet (the facade's field is None); created counts the
\* requests.Session objects the client has constructed
NoClient ==
    [exists |-> FALSE, hosts |-> <<>>, host |-> <<>>, session |-> <<>>, created |-> 0]

\* BaseClient.__init__: host is "", no session yet
BaseClient(hs) ==
    [exists |-> TRUE, hosts |-> hs, host |-> <<>>, session |-> <<>>, created |-> 0]

\* BaseClient.scheme
scheme ==
    IF as_boolean(environ_get("GLUU_COUCHBASE_TRUSTSTORE_ENABLE", PyBool(TRUE)))
    THEN "https" ELSE "http"

\* RestClient.port
RestClient_port ==
    IF as_boolean(environ_get("GLUU_COUCHBASE_TRUSTSTORE_ENABLE", PyBool(TRUE)))
    THEN 18091 ELSE 8091

\* N1qlClient.port with the numbers of the data service
N1qlClient_port_of_rest ==
    IF as_boolean(environ_get("GLUU_COUCHBASE_TRUSTSTORE_ENABLE", PyBool(TRUE)))
    THEN 18091 ELSE 8091

\* N1qlClient.port
N1qlClient_port ==
    IF as_boolean(environ_get("GLUU_COUCHBASE_TRUSTSTORE_ENABLE", PyBool(TRUE)))
    THEN 18093 ELSE 8093

\* self.port of a client of the given kind
port_of(kind) == IF kind = "rest" THEN RestClient_port ELSE N1qlClient_port

\* os.environ.get(name) or default: the default also replaces an empty value
environ_get_or(name, default) ==
    IF name \in DOMAIN env /\ env[name] # "" THEN env[name] ELSE default

\* requests.Session() as BaseClient.session configures it; serial tells the
\* session objects of one client apart
NewSession(serial) ==
    IF as_boolean(environ_get("GLUU_COUCHBASE_VERIFY", PyBool(FALSE)))
    THEN [serial      |-> serial,
          mounted     |-> {"https://"},
          verify      |-> PyStr(environ_get_or("GLUU_COUCHBASE_CERT_FILE",
                                               "/etc/certs/couchbase.crt")),
          host_header |-> <<environ_get_or("GLUU_COUCHBASE_HOST_HEADER", "localhost")>>]
    ELSE [serial |-> serial, mounted |-> {}, verify |-> PyBool(FALSE),
          host_header |-> <<>>]

\* BaseClient.session that builds a session on every access
session_always_new(cli) ==
    [cli EXCEPT !.session = <<NewSession(cli.created + 1)>>, !.created = @ + 1]

\* BaseClient.session: the session object is created on first access
session(cli) ==
    IF cli.session = <<>>
    THEN [cli EXCEPT !.session = <<NewSession(cli.created + 1)>>, !.created = @ + 1]
    ELSE cli

NoData == <<>>

\* a response object; raised = TRUE stands for the transport raising instead
Response(ok, text) == [t |-> "response", raised |-> FALSE, ok |-> ok, text |-> text]
Raised == [t |-> "response", raised |-> TRUE, ok |-> FALSE, text |-> ""]
NoResponse == [t |-> "noresponse", raised |-> FALSE, ok |-> FALSE, text |-> ""]

\* one call of session.get / post / put by the client cli (after it read its
\* session property) on <scheme>://<host>:<port>/<path>
Request(cli, via, client, method, host, path, data) ==
    [via |-> via, client |-> client, method |-> method,
     session |-> cli.session[1], scheme |-> scheme, host |-> host,
     port |-> port_of(client), path |-> path, data |-> data]

\* what a healthcheck request gets back from a host in the given condition
HealthReply(status) ==
    CASE status = "ok"    -> Response(TRUE, "OK")
      [] status = "notok" -> Response(FALSE, "Unauthorized")
      [] status = "raise" -> Raised

\* RestClient.healthcheck: GET <scheme>://<host>:<port>/pools/
RestClient_healthcheck(cli, host, status) ==
    [cli  |-> session(cli),
     req  |-> Request(session(cli), "healthcheck", "rest", "GET", host, "pools/", NoData),
     resp |-> HealthReply(status)]

\* N1qlClient.healthcheck: POST <scheme>://<host>:<port>/query/service
N1qlClient_healthcheck(cli, host, status) ==
    [cli  |-> session(cli),
     req  |-> Request(session(cli), "healthcheck", "n1ql", "POST", host, "query/service",
                      <<<<"statement", PyStr("SELECT status FROM system:indexes LIMIT 1")>>>>),
     resp |-> HealthReply(status)]

healthcheck(kind, cli, host, status) ==
    IF kind = "rest" THEN RestClient_healthcheck(cli, host, status)
    ELSE N1qlClient_healthcheck(cli, host, status)

\* logger.warning(f"Unable to connect to {_host}:{self.port}; reason=...")
Warning(kind, host, reply) ==
    [level |-> "warning", host |-> host, port |-> port_of(kind),
     reason |-> IF reply.raised THEN "ConnectionError" ELSE reply.text]

\* the state of the for loop of resolve_host: the client, the requests sent,
\* the warnings logged, and the exception that left the loop (none: <<>>)
LoopState(cli) == [cli |-> cli, http |-> <<>>, log |-> <<>>, raised |-> <<>>]

RECURSIVE resolve_loop_nobreak(_, _, _, _, _)
\* resolve_loop without the break: every entry is probed, the last success wins
resolve_loop_nobreak(kind, hl, outcomes, i, st) ==
    IF i > Len(hl) THEN st
    ELSE LET hc == healthcheck(kind, st.cli, hl[i], outcomes[i])
             sent == Append(st.http, hc.req)
         IN IF ~hc.resp.raised /\ hc.resp.ok
            THEN resolve_loop_nobreak(kind, hl, outcomes, i + 1,
                                      [st EXCEPT !.cli = [hc.cli EXCEPT !.host = hl[i]],
                                                 !.http = sent])
            ELSE resolve_loop_nobreak(kind, hl, outcomes, i + 1,
                                      [st EXCEPT !.cli = hc.cli, !.http = sent,
                                                 !.log = Append(@, Warning(kind, hl[i], hc.resp))])

RECURSIVE resolve_loop_uncaught(_, _, _, _, _)
\* resolve_loop without the except clause: a raising probe leaves the loop
resolve_loop_uncaught(kind, hl, outcomes, i, st) ==
    IF i > Len(hl) THEN st
    ELSE LET hc == healthcheck(kind, st.cli, hl[i], outcomes[i])
             sent == Append(st.http, hc.req)
         IN IF hc.resp.raised
            THEN [st EXCEPT !.cli = hc.cli, !.http = sent, !.raised = <<"ConnectionError">>]
            ELSE IF hc.resp.ok
            THEN [st EXCEPT !.cli = [hc.cli EXCEPT !.host = hl[i]], !.http = sent]
            ELSE resolve_loop_uncaught(kind, hl, outcomes, i + 1,
                                       [st EXCEPT !.cli = hc.cli, !.http = sent,
                                                  !.log = Append(@, Warning(kind, hl[i], hc.resp))])

RECURSIVE resolve_loop(_, _, _, _, _)
\* the for loop of resolve_host from entry i on
resolve_loop(kind, hl, outcomes, i, st) ==
    IF i > Len(hl) THEN st
    ELSE LET hc == healthcheck(kind, st.cli, hl[i], outcomes[i])
             sent == Append(st.http, hc.req)
         IN IF ~hc.resp.raised /\ hc.resp.ok
            THEN \* self.host = _host; break
                 [st EXCEPT !.cli = [hc.cli EXCEPT !.host = hl[i]], !.http = sent]
            ELSE \* response not ok, or exception caught: warning, next host
                 resolve_loop(kind, hl, outcomes, i + 1,
                              [st EXCEPT !.cli = hc.cli, !.http = sent,
                                         !.log = Append(@, Warning(kind, hl[i], hc.resp))])

\* BaseClient.resolve_host; outcomes[i] is what a probe of entry i reports.
\* returned is what the caller gets: self.host, or the exception that left
\* the method
resolve_host(kind, cli, outcomes) ==
    LET st == resolve_loop(kind, HostList(cli.hosts), outcomes, 1, LoopState(cli))
    IN [cli |-> st.cli, http |-> st.http, log |-> st.log,
        returned |-> IF st.raised # <<>>
                     THEN [kind |-> "raise", exc |-> st.raised[1], host |-> <<>>]
                     ELSE [kind |-> "return", exc |-> "", host |-> st.cli.host]]

-----------------------------------------------------------------------------
(* Results of an operation *)

Return(v) == [kind |-> "return", exc |-> "", msg |-> <<>>, value |-> v]
Raise(exc, msg) == [kind |-> "raise", exc |-> exc, msg |-> msg, value |-> NoResponse]

\* JSON documents a server may send
SysInfoDoc == PyDict(<<<<"implementationVersion", PyStr("6.6.0")>>, <<"nodes", PyList(<<>>)>>>>)
ErrorDoc == PyDict(<<<<"errors", PyStr("unauthorized")>>>>)
JsonDocs == {SysInfoDoc, ErrorDoc, PyDict(<<>>), PyList(<<>>)}

\* what an exec_api request gets back from the resolved host
ExecReply(es) ==
    CASE es = "ok_json"    -> Response(TRUE, json_dumps(SysInfoDoc))
      [] es = "ok_text"    -> Response(TRUE, "<html>")
      [] es = "notok"      -> Response(FALSE, "Unauthorized")
      [] es = "notok_json" -> Response(FALSE, json_dumps(ErrorDoc))
      [] es = "raise"      -> Raised

\* Response.json(): the document whose encoding the body is; raises when the
\* body is not JSON
Response_json(r) ==
    IF \E d \in JsonDocs : json_dumps(d) = r.text
    THEN Return(CHOOSE d \in JsonDocs : json_dumps(d) = r.text)
    ELSE Raise("JSONDecodeError", <<>>)

\* session.get / post / put on <scheme>://<host>:<port>/<path>: with host ""
\* the URL has no host and the call raises before anything is sent; otherwise
\* the reply is the server's, or the transport raises
SessionCall(host, es) ==
    IF host = <<>>
    THEN [resp |-> Raised, result |-> Raise("InvalidURL", <<>>)]
    ELSE LET reply == ExecReply(es)
         IN [resp   |-> reply,
             result |-> IF reply.raised THEN Raise("ConnectionError", <<>>)
                        ELSE Return(reply)]

-----------------------------------------------------------------------------
(* exec_api of the two clients, build_n1ql_request_body *)

\* N1qlClient.exec_api: always one POST to the client's host
N1qlClient_exec_api(cli, path, data, es) ==
    LET sent == SessionCall(cli.host, es)
    IN [cli    |-> session(cli),
        http   |-> <<Request(session(cli), "exec_api", "n1ql", "POST", cli.host, path, data)>>,
        resp   |-> sent.resp,
        result |-> sent.result]

\* dict[key] = value: replaces the value of an existing key, appends a new key
DictSet(d, k, v) ==
    IF \E i \in 1..Len(d) : d[i][1] = k
    THEN [i \in 1..Len(d) |-> IF d[i][1] = k THEN <<k, v>> ELSE d[i]]
    ELSE Append(d, <<k, v>>)

RECURSIVE named_params(_, _)
\* for k, v in kwargs.items(): body[f"${k}"] = json.dumps(v)
named_params(body, kwargs) ==
    IF kwargs = <<>> THEN body
    ELSE named_params(DictSet(body, "$" \o kwargs[1][1], PyStr(json_dumps(kwargs[1][2]))),
                      Tail(kwargs))

\* build_n1ql_request_body that writes "args" whether or not any was given
build_n1ql_request_body_always_args(query, args, kwargs) ==
    LET body0 == <<<<"statement", PyStr(query)>>>>
        body1 == DictSet(body0, "args", PyStr(json_dumps(PyList(args))))
    IN named_params(body1, kwargs)

\* build_n1ql_request_body(query, *args, **kwargs)
build_n1ql_request_body(query, args, kwargs) ==
    LET body0 == <<<<"statement", PyStr(query)>>>>
        body1 == IF args # <<>>
                 THEN DictSet(body0, "args", PyStr(json_dumps(PyList(args))))
                 ELSE body0
    IN named_params(body1, kwargs)

RestMethods == {"GET", "POST", "PUT"}

\* exec_api that forgets the host when the transport raises
RestClient_exec_api_resets(cli, path, data, method, es) ==
    LET sent == SessionCall(cli.host, es)
    IN IF method \notin RestMethods
       THEN [cli    |-> session(cli),
             http   |-> <<>>,
             resp   |-> NoResponse,
             result |-> Raise("ValueError", <<"Unsupported method", method>>)]
       ELSE [cli    |-> IF sent.resp.raised THEN [session(cli) EXCEPT !.host = <<>>]
                        ELSE session(cli),
             http   |-> <<Request(session(cli), "exec_api", "rest", method, cli.host, path,
                                  IF method = "GET" THEN NoData ELSE data)>>,
             resp   |-> sent.resp,
             result |-> sent.result]

\* exec_api that looks the method up after upper-casing it
RestClient_exec_api_upper(cli, path, data, method, es) ==
    LET sent == SessionCall(cli.host, es)
        m == IF method = "get" THEN "GET" ELSE method
    IN IF m \notin RestMethods
       THEN [cli    |-> session(cli),
             http   |-> <<>>,
             resp   |-> NoResponse,
             result |-> Raise("ValueError", <<"Unsupported method", method>>)]
       ELSE [cli    |-> session(cli),
             http   |-> <<Request(session(cli), "exec_api", "rest", m, cli.host, path,
                                  IF m = "GET" THEN NoData ELSE data)>>,
             resp   |-> sent.resp,
             result |-> sent.result]

\* RestClient.exec_api: the callbacks table is built first (which creates the
\* session), an unknown method raises before any request
RestClient_exec_api(cli, path, data, method, es) ==
    LET sent == SessionCall(cli.host, es)
    IN IF method \notin RestMethods
       THEN [cli    |-> session(cli),
             http   |-> <<>>,
             resp   |-> NoResponse,
             result |-> Raise("ValueError", <<"Unsupported method", method>>)]
       ELSE [cli    |-> session(cli),
             http   |-> <<Request(session(cli), "exec_api", "rest", method, cli.host, path,
                                  IF method = "GET" THEN NoData ELSE data)>>,
             resp   |-> sent.resp,
             result |-> sent.result]

-----------------------------------------------------------------------------
(* CouchbaseClient: the two lazy client properties and the operations *)

ResolveError(service, hs) ==
    Raise("ValueError", <<"Unable to resolve host for", service, "from", hs, "list">>)

\* rest_client without the check of the resolved host
rest_client_unchecked(cli, hs, outcomes) ==
    IF ~cli.exists
    THEN LET r == resolve_host("rest", BaseClient(hs), outcomes)
         IN [cli |-> r.cli, http |-> r.http, log |-> r.log,
             result |-> Return(NoResponse)]
    ELSE [cli |-> cli, http |-> <<>>, log |-> <<>>, result |-> Return(NoResponse)]

\* CouchbaseClient.rest_client: the client is stored before it resolves
rest_client(cli, hs, outcomes) ==
    IF ~cli.exists
    THEN LET r == resolve_host("rest", BaseClient(hs), outcomes)
         IN [cli    |-> r.cli,
             http   |-> r.http,
             log    |-> r.log,
             result |-> IF r.cli.host = <<>> THEN ResolveError("data service", hs)
                        ELSE Return(NoResponse)]
    ELSE [cli |-> cli, http |-> <<>>, log |-> <<>>, result |-> Return(NoResponse)]

\* CouchbaseClient.n1ql_client
n1ql_client(cli, hs, outcomes) ==
    IF ~cli.exists
    THEN LET r == resolve_host("n1ql", BaseClient(hs), outcomes)
         IN [cli    |-> r.cli,
             http   |-> r.http,
             log    |-> r.log,
             result |-> IF r.cli.host = <<>> THEN ResolveError("query service", hs)
                        ELSE Return(NoResponse)]
    ELSE [cli |-> cli, http |-> <<>>, log |-> <<>>, result |-> Return(NoResponse)]

\* self.rest_client.exec_api(path, data=..., method=...); p is what reading
\* the property self.rest_client gave
rest_call(p, path, data, method, es) ==
    IF p.result.kind = "raise"
    THEN [cli |-> p.cli, http |-> p.http, log |-> p.log, resp |-> NoResponse,
             result |-> p.result]
    ELSE LET e == RestClient_exec_api(p.cli, path, data, method, es)
         IN [cli |-> e.cli, http |-> p.http \o e.http, log |-> p.log, resp |-> e.resp,
             result |-> e.result]

get_buckets(p, es) ==
    rest_call(p, "pools/default/buckets", NoData, "GET", es)

add_bucket(p, name, memsize, type_, es) ==
    rest_call(p, "pools/default/buckets",
              <<<<"name", PyStr(name)>>, <<"bucketType", PyStr(type_)>>,
                <<"ramQuotaMB", PyInt(memsize)>>, <<"authType", PyStr("sasl")>>>>,
              "POST", es)

\* get_system_info that decodes the body without looking at resp.ok
get_system_info_unchecked(p, es) ==
    LET r == rest_call(p, "pools/default", NoData, "GET", es)
    IN IF r.result.kind = "raise" THEN r
       ELSE [r EXCEPT !.result = Response_json(r.resp)]

\* sys_info = {}; if resp.ok: sys_info = resp.json()
get_system_info(p, es) ==
    LET r == rest_call(p, "pools/default", NoData, "GET", es)
    IN IF r.result.kind = "raise" THEN r
       ELSE [r EXCEPT !.result = IF r.resp.ok THEN Response_json(r.resp)
                                  ELSE Return(PyDict(<<>>))]

\* the body is built first; p is what reading self.n1ql_client then gave
exec_query(p, query, args, kwargs, es) ==
    LET data == build_n1ql_request_body(query, args, kwargs)
    IN IF p.result.kind = "raise"
       THEN [cli |-> p.cli, http |-> p.http, log |-> p.log, resp |-> NoResponse,
             result |-> p.result]
       ELSE LET e == N1qlClient_exec_api(p.cli, "query/service", data, es)
            IN [cli |-> e.cli, http |-> p.http \o e.http, log |-> p.log, resp |-> e.resp,
                result |-> e.result]

create_user(p, username, password, fullname, roles, es) ==
    rest_call(p, "settings/rbac/users/local/" \o username,
              <<<<"name", PyStr(fullname)>>, <<"password", PyStr(password)>>,
                <<"roles", PyStr(roles)>>>>,
              "PUT", es)

-----------------------------------------------------------------------------
(* sql.py: the dialect adapters *)

\* an exception of the database driver as SQLAlchemy wraps it; code is
\* exc.orig.pgcode (PostgreSQL, a string or None) or exc.orig.args[0] (MySQL)
DBError(cls, code) == [cls |-> cls, code |-> code]
\* dberr when the database raised nothing
NoError == <<>>

\* raise exc: the exception the handler was given leaves unchanged
Reraise(exc) == Raise(exc.cls, <<exc>>)

PostgresqlAdapter_on_create_table_error(exc) ==
    IF exc.code \notin {"42P07"} THEN Reraise(exc) ELSE Return(PyNone)

PostgresqlAdapter_on_create_index_error(exc) ==
    IF exc.code \notin {"42P07"} THEN Reraise(exc) ELSE Return(PyNone)

PostgresqlAdapter_on_insert_into_error(exc) ==
    IF exc.code \notin {"23505"} THEN Reraise(exc) ELSE Return(PyNone)

MysqlAdapter_on_create_table_error(exc) ==
    IF exc.code \notin {1050} THEN Reraise(exc) ELSE Return(PyNone)

\* on_create_index_error that was copied from on_create_table_error unchanged
MysqlAdapter_on_create_index_error_copied(exc) ==
    IF exc.code \notin {1050} THEN Reraise(exc) ELSE Return(PyNone)

MysqlAdapter_on_create_index_error(exc) ==
    IF exc.code \notin {1061} THEN Reraise(exc) ELSE Return(PyNone)

MysqlAdapter_on_insert_into_error(exc) ==
    IF exc.code \notin {1062} THEN Reraise(exc) ELSE Return(PyNone)

\* adapter.connector
adapter_connector(adapter) ==
    IF adapter = "PostgresqlAdapter" THEN "postgresql+psycopg2" ELSE "mysql+pymysql"

\* adapter.dialect
adapter_dialect(adapter) ==
    IF adapter = "PostgresqlAdapter" THEN "pgsql" ELSE "mysql"

\* the quote characters of the two engines; the backtick U+0060 is written
\* as an apostrophe here
DoubleQuote == "\""
Backtick == "'"

\* adapter.quote_char
adapter_quote_char(adapter) ==
    IF adapter = "PostgresqlAdapter" THEN DoubleQuote ELSE Backtick

\* MysqlAdapter.server_version_query
MysqlAdapter_server_version_query == "SELECT VERSION()"

\* PostgresqlAdapter.server_version: the query string, under another name
PostgresqlAdapter_server_version == "SHOW server_version"

\* adapter.server_version_query: PostgresqlAdapter has no attribute of that name
adapter_server_version_query(adapter) ==
    IF adapter = "PostgresqlAdapter"
    THEN Raise("AttributeError", <<"PostgresqlAdapter", "server_version_query">>)
    ELSE Return(PyStr(MysqlAdapter_server_version_query))

on_create_table_error(adapter, exc) ==
    IF adapter = "PostgresqlAdapter" THEN PostgresqlAdapter_on_create_table_error(exc)
    ELSE MysqlAdapter_on_create_table_error(exc)

on_create_index_error(adapter, exc) ==
    IF adapter = "PostgresqlAdapter" THEN PostgresqlAdapter_on_create_index_error(exc)
    ELSE MysqlAdapter_on_create_index_error(exc)

on_insert_into_error(adapter, exc) ==
    IF adapter = "PostgresqlAdapter" THEN PostgresqlAdapter_on_insert_into_error(exc)
    ELSE MysqlAdapter_on_insert_into_error(exc)

-----------------------------------------------------------------------------
(* sql.py: SQLClient *)

\* values of GLUU_SQL_DB_DIALECT for which __init__ sets an adapter
\* (unset reads as "mysql")
Dialects == {"mysql", "pgsql", "postgresql"}

NoTables == [t \in {} |-> <<>>]
NoMetadata == [exists |-> FALSE, tables |-> NoTables]

\* SQLClient.__init__
SQLClient(dialect) ==
    [adapter  |-> IF dialect \in {"pgsql", "postgresql"} THEN "PostgresqlAdapter"
                  ELSE "MysqlAdapter",
     engine   |-> "None",
     metadata |-> NoMetadata]

\* SQLClient(): the dialect is read from the environment
NewSQLClient == SQLClient(environ_get("GLUU_SQL_DB_DIALECT", PyStr("mysql")).v)

\* SQLClient.engine: created on first access
engine(cli) == [cli EXCEPT !.engine = "Engine"]

\* the class of the SQLAlchemy type a declared column type is reflected as
TypeClass(declared) ==
    CASE declared = "VARCHAR(64)" -> "VARCHAR"
      [] declared = "JSON"        -> "JSON"
      [] declared = "JSONB"       -> "JSONB"

\* column.type.__class__.__name__.lower()
lower(name) ==
    CASE name = "VARCHAR" -> "varchar"
      [] name = "JSON"    -> "json"
      [] name = "JSONB"   -> "jsonb"

\* the columns of a table as reflection finds them: name -> type class
ReflectTable(columns) ==
    [c \in {columns[i][1] : i \in 1..Len(columns)} |->
        TypeClass(columns[CHOOSE i \in 1..Len(columns) : columns[i][1] = c][2])]

\* MetaData.reflect(): tables of the database not yet known are added; tables
\* already reflected stay as they are
reflect(tables, database) ==
    [t \in DOMAIN tables \cup DOMAIN database |->
        IF t \in DOMAIN tables THEN tables[t] ELSE ReflectTable(database[t])]

\* SQLClient.metadata: reflected on the first read, the same object afterwards
metadata(cli, database) ==
    IF ~cli.metadata.exists
    THEN [engine(cli) EXCEPT !.metadata = [exists |-> TRUE,
                                           tables |-> reflect(NoTables, database)]]
    ELSE cli

\* SQLClient.quoted_id
quoted_id(cli, identifier) ==
    adapter_quote_char(cli.adapter) \o identifier \o adapter_quote_char(cli.adapter)

\* a statement as the engine sees it
Statement(verb, table, payload) == [verb |-> verb, table |-> table, payload |-> payload]

\* engine.connect() failing: raised before the try block is entered
ConnectError(cli) ==
    IF cli.adapter = "PostgresqlAdapter" THEN DBError("OperationalError", "None")
    ELSE DBError("OperationalError", 2003)

\* the error codes the engine of an adapter may report for a statement
EngineCodes(adapter) ==
    IF adapter = "PostgresqlAdapter" THEN {"42P07", "23505", "42601", "None"}
    ELSE {1050, 1061, 1062, 1064, 2013}

TableExistsCode(adapter) ==
    IF adapter = "PostgresqlAdapter" THEN "42P07" ELSE 1050

\* SQLClient.create_table(table_name, column_mapping, pk_column).  connects
\* tells whether engine.connect() succeeds; error is <<>> or <<code>>, the code
\* of an error the statement meets.  A table that exists makes CREATE TABLE
\* fail with the table-exists code.
create_table(cli, database, table_name, column_mapping, pk_column, connects, error) ==
    LET columns == [i \in 1..Len(column_mapping) |->
                        quoted_id(cli, column_mapping[i][1]) \o " " \o column_mapping[i][2]
                        \o (IF column_mapping[i][1] = pk_column THEN " NOT NULL UNIQUE" ELSE "")]
        query == Statement("CREATE TABLE", quoted_id(cli, table_name),
                           <<columns, "PRIMARY KEY (" \o quoted_id(cli, pk_column) \o ")">>)
        c == engine(cli)
    IN IF ~connects
       THEN [cli |-> c, db |-> database, sql |-> <<>>, dberr |-> <<ConnectError(cli)>>,
             result |-> Reraise(ConnectError(cli))]
       ELSE IF error # <<>> \/ table_name \in DOMAIN database
       THEN LET exc == DBError("ProgrammingError",
                               IF error # <<>> THEN error[1] ELSE TableExistsCode(cli.adapter))
            IN [cli |-> c, db |-> database, sql |-> <<query>>, dberr |-> <<exc>>,
                result |-> on_create_table_error(cli.adapter, exc)]
       ELSE LET created == [t \in DOMAIN database \cup {table_name} |->
                               IF t = table_name THEN column_mapping ELSE database[t]]
                m == metadata(c, created)
            IN \* refresh metadata as we have newly created table
               [cli |-> [m EXCEPT !.metadata.tables = reflect(m.metadata.tables, created)],
                db |-> created, sql |-> <<query>>, dberr |-> NoError,
                result |-> Return(PyNone)]

\* SQLClient.create_index(query)
create_index(cli, database, query, connects, error) ==
    LET c == engine(cli)
    IN IF ~connects
       THEN [cli |-> c, db |-> database, sql |-> <<>>, dberr |-> <<ConnectError(cli)>>,
             result |-> Reraise(ConnectError(cli))]
       ELSE IF error # <<>>
       THEN LET exc == DBError("ProgrammingError", error[1])
            IN [cli |-> c, db |-> database, sql |-> <<query>>, dberr |-> <<exc>>,
                result |-> on_create_index_error(cli.adapter, exc)]
       ELSE [cli |-> c, db |-> database, sql |-> <<query>>, dberr |-> NoError,
             result |-> Return(PyNone)]

\* the loop of insert_into with the test for a value of the caller left out
with_json_defaults_overwriting(cli, table, column_mapping) ==
    LET mysql == adapter_dialect(cli.adapter) = "mysql"
        json_type == IF mysql THEN "json" ELSE "jsonb"
        json_default_values == IF mysql THEN PyDict(<<<<"v", PyList(<<>>)>>>>)
                               ELSE PyList(<<>>)
        added == {col \in DOMAIN table : lower(table[col]) = json_type}
    IN [col \in DOMAIN column_mapping \cup added |->
            IF col \in added THEN json_default_values ELSE column_mapping[col]]

\* the loop of insert_into: every column of the reflected table that is not
\* in the row and whose type class is the JSON type of the dialect gets the default
with_json_defaults(cli, table, column_mapping) ==
    LET mysql == adapter_dialect(cli.adapter) = "mysql"
        json_type == IF mysql THEN "json" ELSE "jsonb"
        json_default_values == IF mysql THEN PyDict(<<<<"v", PyList(<<>>)>>>>)
                               ELSE PyList(<<>>)
        added == {col \in DOMAIN table :
                    col \notin DOMAIN column_mapping /\ lower(table[col]) = json_type}
    IN [col \in DOMAIN column_mapping \cup added |->
            IF col \in DOMAIN column_mapping THEN column_mapping[col]
            ELSE json_default_values]

\* SQLClient.insert_into(table_name, column_mapping)
insert_into(cli, database, table_name, column_mapping, connects, error) ==
    LET m == metadata(cli, database)
    IN IF table_name \notin DOMAIN m.metadata.tables
       THEN \* table is None: `for column in table.c` raises
            [cli |-> m, db |-> database, sql |-> <<>>, dberr |-> NoError,
             result |-> Raise("AttributeError",
                              <<"'NoneType' object has no attribute 'c'">>)]
       ELSE LET values == with_json_defaults(m, m.metadata.tables[table_name], column_mapping)
                query == Statement("INSERT", table_name, values)
            IN IF ~connects
               THEN [cli |-> m, db |-> database, sql |-> <<>>, dberr |-> <<ConnectError(cli)>>,
                     result |-> Reraise(ConnectError(cli))]
               ELSE IF error # <<>>
               THEN LET exc == DBError("IntegrityError", error[1])
                    IN [cli |-> m, db |-> database, sql |-> <<query>>, dberr |-> <<exc>>,
                        result |-> on_insert_into_error(cli.adapter, exc)]
               ELSE [cli |-> m, db |-> database, sql |-> <<query>>, dberr |-> NoError,
                     result |-> Return(PyNone)]

\* SQLClient.get_table_mapping(): reads self.metadata
get_table_mapping(cli, database) ==
    LET m == metadata(cli, database)
    IN [cli |-> m, db |-> database, sql |-> <<>>, dberr |-> NoError,
        result |-> Return(m.metadata.tables)]

\* SQLClient.server_version: self.engine.scalar(self.adapter.server_version_query);
\* version is what the server answers, a string of characters
server_version(cli, database, connects, version) ==
    LET c == engine(cli)
        query == adapter_server_version_query(cli.adapter)
    IN IF query.kind = "raise"
       THEN [cli |-> c, db |-> database, sql |-> <<>>, dberr |-> NoError, result |-> query]
       ELSE IF ~connects
       THEN [cli |-> c, db |-> database, sql |-> <<>>, dberr |-> <<ConnectError(cli)>>,
             result |-> Reraise(ConnectError(cli))]
       ELSE [cli |-> c, db |-> database, sql |-> <<Statement(query.value.v, "", <<>>)>>,
             dberr |-> NoError, result |-> Return(PyStr(version))]

Digits == <<"0", "1", "2", "3", "4", "5", "6", "7", "8", "9">>
IsDigit(ch) == \E d \in 1..10 : Digits[d] = ch

RECURSIVE DigitsEnd(_, _)
\* the last position of the run of digits that starts at position i (i - 1 if
\* there is no digit at i)
DigitsEnd(s, i) ==
    IF i <= Len(s) /\ IsDigit(s[i]) THEN DigitsEnd(s, i + 1) ELSE i - 1

RECURSIVE GroupsEnd(_, _, _)
\* (.\d+)+ matched greedily from position p on, after `count` groups: the last
\* position of the match, 0 if there is none.  The dot is any character but a
\* newline.
GroupsEnd(s, p, count) ==
    IF p + 1 <= Len(s) /\ s[p] # "\n" /\ IsDigit(s[p + 1])
    THEN GroupsEnd(s, DigitsEnd(s, p + 1) + 1, count + 1)
    ELSE IF count >= 1 THEN p - 1 ELSE 0

\* \d+(.\d+)+ matched at position i: the last position of the match, 0 if there
\* is none.  When nothing follows the whole run of digits, the run itself
\* matches if it has three digits or more (the dot taking a digit).
MatchEnd(s, i) ==
    LET j == DigitsEnd(s, i)
    IN IF j < i THEN 0
       ELSE IF GroupsEnd(s, j + 1, 0) # 0 THEN GroupsEnd(s, j + 1, 0)
       ELSE IF j - i >= 2 THEN j
       ELSE 0

\* SERVER_VERSION_RE.search(s): <<>> for None, <<the matched text>> otherwise
SERVER_VERSION_RE_search(s) ==
    LET starts == {i \in 1..Len(s) : MatchEnd(s, i) # 0}
    IN IF starts = {} THEN <<>>
       ELSE LET i == CHOOSE k \in starts : \A l \in starts : k <= l
            IN <<SubSeq(s, i, MatchEnd(s, i))>>

RECURSIVE split_dots(_)
\* str.split(".")
split_dots(s) ==
    IF \A i \in 1..Len(s) : s[i] # "." THEN <<s>>
    ELSE LET i == CHOOSE k \in 1..Len(s) : s[k] = "." /\ \A j \in 1..(k - 1) : s[j] # "."
         IN <<SubSeq(s, 1, i - 1)>> \o split_dots(SubSeq(s, i + 1, Len(s)))

RECURSIVE int(_)
\* int(comp) for a string of digits
int(comp) ==
    IF comp = <<>> THEN 0
    ELSE 10 * int(SubSeq(comp, 1, Len(comp) - 1))
         + ((CHOOSE d \in 1..10 : Digits[d] = comp[Len(comp)]) - 1)

\* int(comp) is defined for a string of digits only
IsInt(comp) == comp # <<>> /\ \A i \in 1..Len(comp) : IsDigit(comp[i])

\* SQLClient.get_server_version: the numbers of the version, (0, 0) when the
\* answer has none; a component that is not a number raises ValueError
get_server_version(cli, database, connects, version) ==
    LET sv == server_version(cli, database, connects, version)
    IN IF sv.result.kind = "raise" THEN sv
       ELSE LET pattern == SERVER_VERSION_RE_search(sv.result.value.v)
                comps == split_dots(pattern[1])
            IN [sv EXCEPT !.result =
                  IF pattern = <<>> THEN Return(<<0, 0>>)
                  ELSE IF \E i \in 1..Len(comps) : ~IsInt(comps[i])
                  THEN Raise("ValueError", <<"invalid literal for int()">>)
                  ELSE Return([i \in 1..Len(comps) |-> int(comps[i])])]

-----------------------------------------------------------------------------
(* Helpers that read password files and render property files *)

\* open(path) of a file that does not exist
FileNotFound(path) == Raise("FileNotFoundError", <<path>>)

Encoded(text, key) == [t |-> "encoded", v |-> encode_text(text, key)]

\* with open(password_file) as f: f.read().strip(), encoded unless plaintext
read_password(password_file, manager, plaintext) ==
    IF password_file \notin DOMAIN fs THEN FileNotFound(password_file)
    ELSE LET password == str_of(strip(fs[password_file]))
         IN Return(IF plaintext THEN PyStr(password)
                   ELSE Encoded(password, secret_get(manager, "encoded_salt")))

\* get_couchbase_password(manager, plaintext)
get_couchbase_password(manager, plaintext) ==
    read_password(environ_get("GLUU_COUCHBASE_PASSWORD_FILE",
                              PyStr("/etc/gluu/conf/couchbase_password")).v,
                  manager, plaintext)

\* get_couchbase_superuser_password(manager, plaintext)
get_couchbase_superuser_password(manager, plaintext) ==
    read_password(environ_get("GLUU_COUCHBASE_SUPERUSER_PASSWORD_FILE",
                              PyStr("/etc/gluu/conf/couchbase_superuser_password")).v,
                  manager, plaintext)

\* get_sql_password without the strip
get_sql_password_unstripped ==
    LET password_file == environ_get("GLUU_SQL_PASSWORD_FILE",
                                     PyStr("/etc/gluu/conf/sql_password")).v
    IN IF password_file \notin DOMAIN fs THEN "" ELSE str_of(fs[password_file])

\* get_sql_password: FileNotFoundError is suppressed, password stays ""
get_sql_password ==
    LET password_file == environ_get("GLUU_SQL_PASSWORD_FILE",
                                     PyStr("/etc/gluu/conf/sql_password")).v
    IN IF password_file \notin DOMAIN fs THEN "" ELSE str_of(strip(fs[password_file]))

\* str() of a value read from the environment or of its default
str(val) == IF val.t = "int" THEN ToString(val.v) ELSE val.v

\* SQLClient.engine_url
engine_url(cli) ==
    LET host == environ_get("GLUU_SQL_DB_HOST", PyStr("localhost"))
        port == environ_get("GLUU_SQL_DB_PORT", PyInt(3306))
        database == environ_get("GLUU_SQL_DB_NAME", PyStr("gluu"))
        user == environ_get("GLUU_SQL_DB_USER", PyStr("gluu"))
        password == get_sql_password
    IN adapter_connector(cli.adapter) \o "://" \o str(user) \o ":" \o password
       \o "@" \o str(host) \o ":" \o str(port) \o "/" \o str(database)

\* the destination of a render: not touched, opened and left empty, or written
NotWritten == <<>>
LeftEmpty == <<[empty |-> TRUE]>>

\* render_sql_properties(manager, src, dest); the template is txt, the text
\* written is txt with these values for its placeholders
render_sql_properties(manager, src, dest) ==
    IF src \notin DOMAIN fs
    THEN [written |-> NotWritten, result |-> FileNotFound(src)]
    ELSE LET db_dialect == environ_get("GLUU_SQL_DB_DIALECT", PyStr("mysql")).v
             db_name == environ_get("GLUU_SQL_DB_NAME", PyStr("gluu")).v
             default_schema == IF db_dialect = "mysql" THEN db_name ELSE "public"
             schema == environ_get("GLUU_SQL_DB_SCHEMA", PyStr("")).v
             db_schema == IF schema # "" THEN schema ELSE default_schema
         IN [written |-> <<[rdbm_db |-> db_name,
                            rdbm_schema |-> db_schema,
                            rdbm_type |-> IF db_dialect = "pgsql" THEN "postgresql" ELSE "mysql",
                            rdbm_host |-> str(environ_get("GLUU_SQL_DB_HOST", PyStr("localhost"))),
                            rdbm_port |-> str(environ_get("GLUU_SQL_DB_PORT", PyInt(3306))),
                            rdbm_user |-> str(environ_get("GLUU_SQL_DB_USER", PyStr("gluu"))),
                            rdbm_password_enc |->
                                encode_text(get_sql_password, secret_get(manager, "encoded_salt")),
                            server_time_zone |->
                                str(environ_get("GLUU_SQL_DB_TIMEZONE", PyStr("UTC")))]>>,
             result |-> Return(PyNone)]

\* resolve_couchbase_truststore_pw that generates a password on every call
resolve_couchbase_truststore_pw_always_new(manager, random) ==
    [pw |-> random, secret |-> secret_set(manager, "couchbase_truststore_pw", random)]

\* resolve_couchbase_truststore_pw(manager); random is what get_random_chars
\* gives if it is called
resolve_couchbase_truststore_pw(manager, random) ==
    LET pw == secret_get(manager, "couchbase_truststore_pw")
    IN IF pw = ""
       THEN [pw |-> random, secret |-> secret_set(manager, "couchbase_truststore_pw", random)]
       ELSE [pw |-> pw, secret |-> manager]

\* sync_couchbase_truststore(manager, dest): the password is resolved while
\* the arguments of cert_to_truststore are evaluated; what cert_to_truststore
\* is called with is what ends in the key store
sync_couchbase_truststore(manager, dest, random) ==
    LET cert_file == environ_get("GLUU_COUCHBASE_CERT_FILE",
                                 PyStr("/etc/certs/couchbase.crt")).v
        truststore == resolve_couchbase_truststore_pw(manager, random)
    IN [written |-> <<[alias     |-> "gluu_couchbase",
                       cert_file |-> cert_file,
                       dest      |-> IF dest = "" THEN "couchbaseTrustStoreFn" ELSE dest,
                       storepass |-> truststore.pw]>>,
        secret  |-> truststore.secret,
        result  |-> Return(PyNone)]

\* the buckets of render_couchbase_properties without the insert of the prefix
couchbase_buckets_as_mapped(persistence_type, ldap_mapping, bucket_prefix) ==
    LET mappings == get_couchbase_mappings(persistence_type, ldap_mapping)
    IN [i \in 1..Len(mappings) |-> mappings[i][2].bucket]

\* render_couchbase_properties: the list couchbase_buckets
couchbase_buckets(persistence_type, ldap_mapping, bucket_prefix) ==
    LET mappings == get_couchbase_mappings(persistence_type, ldap_mapping)
        buckets == [i \in 1..Len(mappings) |-> mappings[i][2].bucket]
    IN \* always have _default_ bucket
       IF \A i \in 1..Len(buckets) : buckets[i] # bucket_prefix
       THEN <<bucket_prefix>> \o buckets
       ELSE buckets

\* render_couchbase_properties: the list couchbase_mappings
couchbase_mappings(persistence_type, ldap_mapping) ==
    LET mappings == get_couchbase_mappings(persistence_type, ldap_mapping)
        mapped == SelectSeq(mappings, LAMBDA e : e[2].mapping # "")
    IN [i \in 1..Len(mapped) |->
          "bucket." \o mapped[i][2].bucket \o ".mapping: " \o mapped[i][2].mapping]

\* render_couchbase_properties(manager, src, dest).  The placeholders for the
\* two timeouts and the two keep-alive settings are integers read from the
\* environment on their own and are not part of the text modelled here.
render_couchbase_properties(manager, src, dest, random) ==
    LET persistence_type == environ_get("GLUU_PERSISTENCE_TYPE", PyStr("couchbase")).v
        ldap_mapping == environ_get("GLUU_PERSISTENCE_LDAP_MAPPING", PyStr("default")).v
        hostname == environ_get("GLUU_COUCHBASE_URL", PyStr("localhost")).v
        bucket_prefix == environ_get("GLUU_COUCHBASE_BUCKET_PREFIX", PyStr("gluu")).v
        buckets == couchbase_buckets(persistence_type, ldap_mapping, bucket_prefix)
        password == get_couchbase_password(manager, FALSE)
        truststore == resolve_couchbase_truststore_pw(manager, random)
    IN IF src \notin DOMAIN fs
       THEN [written |-> NotWritten, secret |-> manager, result |-> FileNotFound(src)]
       ELSE IF password.kind = "raise"
       THEN [written |-> LeftEmpty, secret |-> manager, result |-> password]
       ELSE [written |-> <<[hostname |-> hostname,
                            couchbase_server_user |-> get_couchbase_user,
                            encoded_couchbase_server_pw |-> password.value.v,
                            bucket_list |-> buckets,
                            couchbase_buckets |-> join(", ", buckets),
                            default_bucket |-> bucket_prefix,
                            couchbase_mappings |->
                                join("\n", couchbase_mappings(persistence_type, ldap_mapping)),
                            encryption_method |-> "SSHA-256",
                            ssl_enabled |->
                                IF as_boolean(environ_get("GLUU_COUCHBASE_TRUSTSTORE_ENABLE",
                                                          PyBool(TRUE)))
                                THEN "true" ELSE "false",
                            couchbaseTrustStoreFn |-> "couchbaseTrustStoreFn",
                            encoded_couchbaseTrustStorePass |->
                                encode_text(truststore.pw, secret_get(manager, "encoded_salt")),
                            couchbase_scan_consistency |-> get_couchbase_scan_consistency]>>,
             secret |-> truststore.secret,
             result |-> Return(PyNone)]

-----------------------------------------------------------------------------
(* The facade as a state machine: one action per public operation *)

\* healthcheck outcomes an operation may meet: one per entry of the host list
\* when the client is still to be resolved, none otherwise
HealthInputs(cli) ==
    IF cli.exists THEN {<<>>} ELSE [1..Len(HostList(hosts)) -> HealthStatus]

\* replies to requests whose body the facade does not read
PlainStatus == {"ok_json", "notok", "raise"}

\* the replies an operation may meet, given what reading the client property
\* gave: a server replies only if a request can reach one
Replies(p, statuses) ==
    IF p.result.kind = "raise" \/ p.cli.host = <<>> THEN {"raise"} ELSE statuses

BucketNames == {"gluu", "gluu_user"}
QuerySamples ==
    { <<"SELECT 1", <<>>, <<>>>>,
      <<"SELECT $x", <<PyInt(1)>>, <<<<"x", PyInt(5)>>>>>> }
\* methods a caller may pass to RestClient.exec_api ("None": no method given)
CallerMethods == RestMethods \cup {"DELETE", "get", "None"}

Done(name, arguments, outcomes, r) ==
    /\ op' = name
    /\ call' = arguments
    /\ oc' = outcomes
    /\ http' = r.http
    /\ log' = r.log
    /\ resp' = r.resp
    /\ result' = r.result
    /\ UNCHANGED <<hosts, built, sql_cli, db, sql, dberr, env, fs, written, secret>>

RestDone(name, arguments, outcomes, r) ==
    /\ rest_cli' = r.cli
    /\ UNCHANGED n1ql_cli
    /\ Done(name, arguments, outcomes, r)

GetBuckets ==
    \E outcomes \in HealthInputs(rest_cli) :
      \E p \in {rest_client(rest_cli, hosts, outcomes)} :
        \E es \in Replies(p, PlainStatus) :
          \E r \in {get_buckets(p, es)} :
            RestDone("get_buckets", <<>>, outcomes, r)

AddBucket ==
    \E outcomes \in HealthInputs(rest_cli), name \in BucketNames :
      \E p \in {rest_client(rest_cli, hosts, outcomes)} :
        \E es \in Replies(p, PlainStatus) :
          \E r \in {add_bucket(p, name, 100, "couchbase", es)} :
            RestDone("add_bucket", <<name>>, outcomes, r)

GetSystemInfo ==
    \E outcomes \in HealthInputs(rest_cli) :
      \E p \in {rest_client(rest_cli, hosts, outcomes)} :
        \E es \in Replies(p, ExecStatus) :
          \E r \in {get_system_info(p, es)} :
            RestDone("get_system_info", <<>>, outcomes, r)

ExecQuery ==
    \E outcomes \in HealthInputs(n1ql_cli), q \in QuerySamples :
      \E p \in {n1ql_client(n1ql_cli, hosts, outcomes)} :
        \E es \in Replies(p, PlainStatus) :
          \E r \in {exec_query(p, q[1], q[2], q[3], es)} :
            /\ n1ql_cli' = r.cli
            /\ UNCHANGED rest_cli
            /\ Done("exec_query", q, outcomes, r)

CreateUser ==
    \E outcomes \in HealthInputs(rest_cli) :
      \E p \in {rest_client(rest_cli, hosts, outcomes)} :
        \E es \in Replies(p, PlainStatus) :
          \E r \in {create_user(p, "admin", "secret", "Admin", "admin", es)} :
            RestDone("create_user", <<"admin">>, outcomes, r)

\* a caller using the data-service client directly:
\* client.rest_client.exec_api("pools/default", method=m)
RestExecApi ==
    \E outcomes \in HealthInputs(rest_cli), method \in CallerMethods :
      \E p \in {rest_client(rest_cli, hosts, outcomes)} :
        \E es \in Replies(p, IF method \in RestMethods THEN PlainStatus ELSE {"raise"}) :
          \E r \in {rest_call(p, "pools/default", NoData, method, es)} :
            RestDone("rest_client.exec_api", <<method>>, outcomes, r)

Idle ==
    /\ op = "init"
    /\ call = <<>>
    /\ oc = <<>>
    /\ http = <<>>
    /\ log = <<>>
    /\ resp = NoResponse
    /\ result = Return(NoResponse)
    /\ built = <<>>
    /\ sql_cli = SQLClient("mysql")
    /\ db = NoTables
    /\ sql = <<>>
    /\ dberr = NoError
    /\ env = NoEnv
    /\ fs = NoFiles
    /\ written = <<>>
    /\ secret = NoSecrets

\* CouchbaseClient.__init__: both clients None
Init ==
    /\ hosts \in FacadeHosts
    /\ rest_cli = NoClient
    /\ n1ql_cli = NoClient
    /\ Idle

-----------------------------------------------------------------------------
(* A service client constructed and resolved on its own:                   *)
(* RestClient(hosts, user, password).resolve_host()                        *)

ResolveHost(kind, cli) ==
    \E outcomes \in [1..Len(HostList(hosts)) -> HealthStatus] :
        \E r \in {resolve_host(kind, cli, outcomes)} :
           /\ op' = "resolve_host"
           /\ call' = <<kind>>
           /\ oc' = outcomes
           /\ http' = r.http
           /\ log' = r.log
           /\ result' = IF r.returned.kind = "raise"
                         THEN Raise(r.returned.exc, <<>>)
                         ELSE Return(r.returned.host)
           /\ IF kind = "rest"
              THEN rest_cli' = r.cli /\ UNCHANGED n1ql_cli
              ELSE n1ql_cli' = r.cli /\ UNCHANGED rest_cli
           /\ UNCHANGED <<hosts, resp, built, sql_cli, db, sql, dberr, env, fs, written,
                        secret>>

RestResolveHost == ResolveHost("rest", rest_cli)

N1qlResolveHost == ResolveHost("n1ql", n1ql_cli)

\* RestClient(hosts, ...) and N1qlClient(hosts, ...) just constructed
InitResolve ==
    /\ hosts \in RawHosts
    /\ rest_cli = BaseClient(hosts)
    /\ n1ql_cli = BaseClient(hosts)
    /\ Idle

-----------------------------------------------------------------------------
(* The two service clients used on their own under a deployment's           *)
(* environment: resolve_host and exec_api, in any order, any number of times *)

\* the flag values a deployment may give
FlagValues == {"true", "false", "random"}

\* the TLS flag alone; the verification flag with certificate path and host
\* header; TLS off with verification on
ClientEnvs ==
    {Environ([GLUU_COUCHBASE_TRUSTSTORE_ENABLE |-> tls]) : tls \in Opt(FlagValues)}
    \cup {Environ([GLUU_COUCHBASE_VERIFY |-> verify,
                   GLUU_COUCHBASE_CERT_FILE |-> cert,
                   GLUU_COUCHBASE_HOST_HEADER |-> header]) :
             verify \in Opt({"true", "false"}),
             cert \in Opt({"/etc/certs/custom.crt"}),
             header \in Opt({"", "cb.example"})}
    \cup {Environ([GLUU_COUCHBASE_TRUSTSTORE_ENABLE |-> <<"false">>,
                   GLUU_COUCHBASE_VERIFY |-> <<"true">>])}

\* host lists: none, one host, two hosts
ClientHosts ==
    {JoinHosts(<<>>), JoinHosts(<<<<"a">>>>), JoinHosts(<<<<"a">>, <<"b">>>>)}

ClientDone(kind, arguments, r) ==
    /\ op' = "exec_api"
    /\ call' = <<kind>> \o arguments
    /\ oc' = <<>>
    /\ http' = r.http
    /\ log' = <<>>
    /\ resp' = r.resp
    /\ result' = r.result
    /\ IF kind = "rest"
       THEN rest_cli' = r.cli /\ UNCHANGED n1ql_cli
       ELSE n1ql_cli' = r.cli /\ UNCHANGED rest_cli
    /\ UNCHANGED <<hosts, built, sql_cli, db, sql, dberr, env, fs, written, secret>>

\* the replies a request of the client may meet: with no host no server is
\* reached
ClientReplies(cli) == IF cli.host = <<>> THEN {"raise"} ELSE PlainStatus

\* RestClient(hosts, ...).exec_api("pools/default", method=m)
RestClientExecApi ==
    \E method \in RestMethods \cup {"DELETE"}, es \in ClientReplies(rest_cli) :
        \E r \in {RestClient_exec_api(rest_cli, "pools/default", NoData, method, es)} :
            ClientDone("rest", <<method>>, r)

\* N1qlClient(hosts, ...).exec_api("query/service", data=...)
N1qlClientExecApi ==
    \E es \in ClientReplies(n1ql_cli) :
        \E r \in {N1qlClient_exec_api(n1ql_cli, "query/service",
                                      <<<<"statement", PyStr("SELECT 1")>>>>, es)} :
            ClientDone("n1ql", <<>>, r)

InitClients ==
    /\ hosts \in ClientHosts
    /\ rest_cli = BaseClient(hosts)
    /\ n1ql_cli = BaseClient(hosts)
    /\ op = "init"
    /\ call = <<>>
    /\ oc = <<>>
    /\ http = <<>>
    /\ log = <<>>
    /\ resp = NoResponse
    /\ result = Return(NoResponse)
    /\ built = <<>>
    /\ sql_cli = SQLClient("mysql")
    /\ db = NoTables
    /\ sql = <<>>
    /\ dberr = NoError
    /\ env \in ClientEnvs
    /\ fs = NoFiles
    /\ written = <<>>
    /\ secret = NoSecrets

-----------------------------------------------------------------------------
(* build_n1ql_request_body as a function of its inputs *)

PyValues == {PyInt(5), PyStr("a"), PyNone, PyList(<<PyInt(1), PyStr("b")>>)}
Queries == {"SELECT 1", "SELECT $x"}
ParamNames == {"x", "args"}

\* keyword arguments: distinct names, in the order the caller wrote them
KwargsSets ==
    {<<>>}
    \cup {<<<<k, v>>>> : k \in ParamNames, v \in PyValues}
    \cup {kw \in {<<<<k1, v1>>, <<k2, v2>>>> :
                     k1 \in ParamNames, k2 \in ParamNames, v1 \in PyValues, v2 \in PyValues} :
            kw[1][1] # kw[2][1]}

BuildBody ==
    /\ op = "init"
    /\ op' = "build_n1ql_request_body"
    /\ built' = build_n1ql_request_body(call[1], call[2], call[3])
    /\ UNCHANGED <<hosts, rest_cli, n1ql_cli, oc, http, resp, result, call,
                   sql_cli, db, sql, dberr, env, fs, written, secret, log>>

InitBody ==
    /\ hosts = <<>>
    /\ rest_cli = NoClient
    /\ n1ql_cli = NoClient
    /\ op = "init"
    /\ call \in Queries \X SeqsUpTo(PyValues, MaxArgs) \X KwargsSets
    /\ oc = <<>>
    /\ http = <<>>
    /\ log = <<>>
    /\ resp = NoResponse
    /\ result = Return(NoResponse)
    /\ built = <<>>
    /\ sql_cli = SQLClient("mysql")
    /\ db = NoTables
    /\ sql = <<>>
    /\ dberr = NoError
    /\ env = NoEnv
    /\ fs = NoFiles
    /\ written = <<>>
    /\ secret = NoSecrets

-----------------------------------------------------------------------------
(* The relational client as a state machine *)

TableNames == {"gluuPerson", "gluuGroup"}

\* the columns a caller declares for a table, by engine
ColumnMappings(adapter) ==
    IF adapter = "PostgresqlAdapter"
    THEN { <<<<"doc_id", "VARCHAR(64)">>, <<"name", "VARCHAR(64)">>, <<"attrs", "JSONB">>>>,
           <<<<"doc_id", "VARCHAR(64)">>, <<"attrs", "JSONB">>, <<"raw", "JSON">>>> }
    ELSE { <<<<"doc_id", "VARCHAR(64)">>, <<"name", "VARCHAR(64)">>, <<"attrs", "JSON">>>> }

\* what a caller may give for a column of a row
ColumnValue(col) ==
    IF col \in {"attrs", "raw"} THEN PyDict(<<<<"v", PyList(<<PyStr("x")>>)>>>>)
    ELSE PyStr("1")

\* rows a caller may insert: any set of the columns, doc_id always given
Rows ==
    {[col \in cols \cup {"doc_id"} |-> ColumnValue(col)] : cols \in SUBSET {"name", "attrs", "raw"}}

\* what a statement may meet once connected: nothing, or an error of any code
Errors(adapter, connects) ==
    IF connects THEN {<<>>} \cup {<<code>> : code \in EngineCodes(adapter)} ELSE {<<>>}

\* CREATE TABLE meets the table-exists code exactly when the table exists
CreateTableErrors(adapter, table_name, connects) ==
    IF table_name \in DOMAIN db THEN {<<>>}
    ELSE Errors(adapter, connects) \ {<<TableExistsCode(adapter)>>}

SqlDone(name, arguments, r) ==
    /\ op' = name
    /\ call' = arguments
    /\ sql_cli' = r.cli
    /\ db' = r.db
    /\ sql' = r.sql
    /\ dberr' = r.dberr
    /\ result' = r.result
    /\ UNCHANGED <<hosts, rest_cli, n1ql_cli, oc, http, resp, built, env, fs, written, secret, log>>

CreateTable ==
    \E t \in TableNames, cm \in ColumnMappings(sql_cli.adapter) :
      \E connects \in BOOLEAN :
        \E error \in CreateTableErrors(sql_cli.adapter, t, connects) :
          \E r \in {create_table(sql_cli, db, t, cm, "doc_id", connects, error)} :
            SqlDone("create_table", <<t, cm>>, r)

CreateIndex ==
    \E t \in TableNames, connects \in BOOLEAN :
      \E error \in Errors(sql_cli.adapter, connects) :
        \E r \in {create_index(sql_cli, db,
                               Statement("CREATE INDEX", quoted_id(sql_cli, t), <<"doc_id">>),
                               connects, error)} :
          SqlDone("create_index", <<t>>, r)

InsertInto ==
    \E t \in TableNames, row \in Rows, connects \in BOOLEAN :
      \E error \in Errors(sql_cli.adapter, connects) :
        \E r \in {insert_into(sql_cli, db, t, row, connects, error)} :
          SqlDone("insert_into", <<t, row>>, r)

GetTableMapping ==
    \E r \in {get_table_mapping(sql_cli, db)} :
        SqlDone("get_table_mapping", <<>>, r)

\* what a server may answer to the version query
VersionStrings ==
    { <<"8", ".", "0", ".", "3", "0">>,
      <<"5", ".", "7", ".", "4", "1", "-", "l", "o", "g">>,
      <<"1", "4", ".", "5", " ", "(", "D", "e", "b", "i", "a", "n", ")">>,
      <<"8", ".", "0", "-", "2", "u">>,
      <<"u", "n", "k", "n", "o", "w", "n">> }

ServerVersion ==
    \E connects \in BOOLEAN, version \in VersionStrings :
        \E r \in {server_version(sql_cli, db, connects, version)} :
            SqlDone("server_version", <<version>>, r)

GetServerVersion ==
    \E connects \in BOOLEAN, version \in VersionStrings :
        \E r \in {get_server_version(sql_cli, db, connects, version)} :
            SqlDone("get_server_version", <<version>>, r)

\* another process (another container on the same database) creates a table
OtherCreatesTable ==
    \E t \in TableNames \ DOMAIN db, cm \in ColumnMappings(sql_cli.adapter) :
        /\ db' = [u \in DOMAIN db \cup {t} |-> IF u = t THEN cm ELSE db[u]]
        /\ op' = "other_creates_table"
        /\ call' = <<t, cm>>
        /\ sql' = <<>>
        /\ dberr' = NoError
        /\ result' = Return(PyNone)
        /\ UNCHANGED <<sql_cli, hosts, rest_cli, n1ql_cli, oc, http, resp, built,
                       env, fs, written, secret, log>>

\* SQLClient() just constructed, against a database that has the table or not
InitSQL ==
    /\ hosts = <<>>
    /\ rest_cli = NoClient
    /\ n1ql_cli = NoClient
    /\ op = "init"
    /\ call = <<>>
    /\ oc = <<>>
    /\ http = <<>>
    /\ log = <<>>
    /\ resp = NoResponse
    /\ result = Return(NoResponse)
    /\ built = <<>>
    /\ env \in {Environ([GLUU_SQL_DB_DIALECT |-> dialect]) : dialect \in Opt(Dialects)}
    /\ sql_cli = NewSQLClient
    /\ db \in {NoTables} \cup
              {[t \in TableNames |-> cm] : cm \in ColumnMappings(sql_cli.adapter)}
    /\ sql = <<>>
    /\ dberr = NoError
    /\ fs = NoFiles
    /\ written = <<>>
    /\ secret = NoSecrets

-----------------------------------------------------------------------------
(* The configuration helpers as a state machine *)

\* environments of a deployment on Couchbase: the variables of the bucket
\* mapping, or the scan consistency
CouchbaseEnvs ==
    {Environ([GLUU_PERSISTENCE_TYPE |-> pt, GLUU_PERSISTENCE_LDAP_MAPPING |-> lm,
              GLUU_COUCHBASE_BUCKET_PREFIX |-> bp]) :
        pt \in Opt({"hybrid", "ldap"}),
        lm \in Opt({"default", "user", "other"}),
        bp \in Opt({"", "jans"})}
    \cup
    {Environ([GLUU_COUCHBASE_SCAN_CONSISTENCY |-> sc]) :
        sc \in Opt({"not_bounded", "request_plus", "statement_plus", "REQUEST_PLUS", ""})}

\* environments of a deployment on a relational database
SqlEnvs ==
    {Environ([GLUU_SQL_DB_DIALECT |-> dl, GLUU_SQL_DB_SCHEMA |-> sm, GLUU_SQL_DB_NAME |-> nm]) :
        dl \in Opt({"mysql", "pgsql", "postgresql"}),
        sm \in Opt({"", "gluuschema"}),
        nm \in Opt({"jans"})}

\* what a password file may hold
PasswordTexts == {<<>>, <<"p", "w">>, <<" ", "p", "w", "\n">>}

Template == <<"%">>

\* the files of a deployment: the template and the password files in `paths`
\* that are present
Files(paths, content) ==
    [path \in {"tmpl"} \cup paths |-> IF path = "tmpl" THEN Template ELSE content]

CouchbaseFileSystems ==
    {Files(present, <<"p", "w", "\n">>) :
        present \in SUBSET {"/etc/gluu/conf/couchbase_password",
                            "/etc/gluu/conf/couchbase_superuser_password"}}

SqlFileSystems ==
    {Files({}, <<>>)} \cup
    {Files({"/etc/gluu/conf/sql_password"}, content) : content \in PasswordTexts}

\* what get_random_chars may give
GeneratedPasswords == {"k1", "k2"}

\* manager.secret of a deployment: no truststore password stored, an empty
\* one, or a password
SecretStores ==
    {NoSecrets} \cup {secret_set(NoSecrets, "couchbase_truststore_pw", pw) : pw \in {"", "k0"}}

ConfigDone(name, arguments, r, out, store) ==
    /\ op' = name
    /\ call' = arguments
    /\ result' = r
    /\ written' = out
    /\ secret' = store
    /\ UNCHANGED <<hosts, rest_cli, n1ql_cli, oc, http, resp, built,
                   sql_cli, db, sql, dberr, env, fs, log>>

GetCouchbaseMappings ==
    \E persistence_type \in {"couchbase", "hybrid", "ldap"},
       ldap_mapping \in {"default", "user", "cache", "site", "token", "session", "other"} :
      \E r \in {get_couchbase_mappings(persistence_type, ldap_mapping)} :
        ConfigDone("get_couchbase_mappings", <<persistence_type, ldap_mapping>>,
                   Return(r), NotWritten, secret)

GetCouchbaseScanConsistency ==
    \E r \in {get_couchbase_scan_consistency} :
        ConfigDone("get_couchbase_scan_consistency", <<>>, Return(PyStr(r)), NotWritten, secret)

GetCouchbasePassword ==
    \E plaintext \in BOOLEAN :
      \E r \in {get_couchbase_password(secret, plaintext)} :
        ConfigDone("get_couchbase_password", <<plaintext>>, r, NotWritten, secret)

GetCouchbaseSuperuserPassword ==
    \E plaintext \in BOOLEAN :
      \E r \in {get_couchbase_superuser_password(secret, plaintext)} :
        ConfigDone("get_couchbase_superuser_password", <<plaintext>>, r, NotWritten, secret)

RenderCouchbaseProperties ==
    \E src \in {"tmpl", "missing"}, random \in GeneratedPasswords :
      \E r \in {render_couchbase_properties(secret, src, "dest", random)} :
        ConfigDone("render_couchbase_properties", <<src, "dest">>, r.result, r.written, r.secret)

ResolveCouchbaseTruststorePw ==
    \E random \in GeneratedPasswords :
      \E r \in {resolve_couchbase_truststore_pw(secret, random)} :
        ConfigDone("resolve_couchbase_truststore_pw", <<random>>, Return(PyStr(r.pw)),
                   NotWritten, r.secret)

SyncCouchbaseTruststore ==
    \E dest \in {"", "/etc/certs/couchbase.pkcs12"}, random \in GeneratedPasswords :
      \E r \in {sync_couchbase_truststore(secret, dest, random)} :
        ConfigDone("sync_couchbase_truststore", <<dest, random>>, r.result, r.written, r.secret)

GetSqlPassword ==
    \E r \in {get_sql_password} :
        ConfigDone("get_sql_password", <<>>, Return(PyStr(r)), NotWritten, secret)

EngineUrl ==
    \E r \in {engine_url(sql_cli)} :
        ConfigDone("engine_url", <<>>, Return(PyStr(r)), NotWritten, secret)

RenderSqlProperties ==
    \E src \in {"tmpl", "missing"} :
      \E r \in {render_sql_properties(secret, src, "dest")} :
        ConfigDone("render_sql_properties", <<src, "dest">>, r.result, r.written, secret)

\* a process that has just started in its environment
InitConfig ==
    /\ hosts = <<>>
    /\ rest_cli = NoClient
    /\ n1ql_cli = NoClient
    /\ op = "init"
    /\ call = <<>>
    /\ oc = <<>>
    /\ http = <<>>
    /\ log = <<>>
    /\ resp = NoResponse
    /\ result = Return(NoResponse)
    /\ built = <<>>
    /\ \/ env \in CouchbaseEnvs /\ fs \in CouchbaseFileSystems /\ secret \in SecretStores
       \/ env \in SqlEnvs /\ fs \in SqlFileSystems /\ secret = NoSecrets
    /\ sql_cli = NewSQLClient
    /\ db = NoTables
    /\ sql = <<>>
    /\ dberr = NoError
    /\ written = NotWritten

-----------------------------------------------------------------------------
vars == <<hosts, rest_cli, n1ql_cli, op, oc, http, resp, result, call, built,
          sql_cli, db, sql, dberr, env, fs, written, secret, log>>

Next ==
    \/ GetBuckets
    \/ AddBucket
    \/ GetSystemInfo
    \/ ExecQuery
    \/ CreateUser
    \/ RestExecApi

\* the Couchbase facade
Spec == Init /\ [][Next]_vars

NextResolve == RestResolveHost \/ N1qlResolveHost

\* a service client resolved on its own
SpecResolve == InitResolve /\ [][NextResolve]_vars

NextBody == BuildBody

\* build_n1ql_request_body alone
SpecBody == InitBody /\ [][NextBody]_vars

NextSQL ==
    \/ CreateTable
    \/ CreateIndex
    \/ InsertInto
    \/ GetTableMapping
    \/ ServerVersion
    \/ GetServerVersion
    \/ OtherCreatesTable

\* the relational client
SpecSQL == InitSQL /\ [][NextSQL]_vars

NextConfig ==
    \/ GetCouchbaseMappings
    \/ GetCouchbaseScanConsistency
    \/ GetCouchbasePassword
    \/ GetCouchbaseSuperuserPassword
    \/ RenderCouchbaseProperties
    \/ ResolveCouchbaseTruststorePw
    \/ SyncCouchbaseTruststore
    \/ GetSqlPassword
    \/ EngineUrl
    \/ RenderSqlProperties

\* the configuration helpers of both backends
SpecConfig == InitConfig /\ [][NextConfig]_vars

NextClients ==
    \/ RestResolveHost
    \/ N1qlResolveHost
    \/ RestClientExecApi
    \/ N1qlClientExecApi

\* the two service clients on their own, under a deployment's environment
SpecClients == InitClients /\ [][NextClients]_vars

-----------------------------------------------------------------------------
(* Claims about host resolution (SpecResolve) *)

Min(S) == CHOOSE x \in S : \A y \in S : x <= y
Max(S) == CHOOSE x \in S : \A y \in S : x >= y

\* The host list as the data model describes it, written without recursion:
\* the raw string is cut at its commas; of each piece the part from its first
\* to its last non-blank character is an entry; pieces with no such character
\* give none; entries stand in the order of their pieces.
Cuts(raw) == {0, Len(raw) + 1} \cup {i \in 1..Len(raw) : raw[i] = ","}
PieceCore(raw, l) ==
    {i \in (l + 1)..(Min({c \in Cuts(raw) : c > l}) - 1) : raw[i] # " "}
EntryStarts(raw) == {l \in Cuts(raw) \ {Len(raw) + 1} : PieceCore(raw, l) # {}}
Entries(raw) ==
    [k \in 1..Cardinality(EntryStarts(raw)) |->
        LET l == CHOOSE m \in EntryStarts(raw) :
                    Cardinality({n \in EntryStarts(raw) : n < m}) = k - 1
        IN SubSeq(raw, Min(PieceCore(raw, l)), Max(PieceCore(raw, l)))]

ResolvedClient == IF call[1] = "rest" THEN rest_cli ELSE n1ql_cli

\* C1: when entry N of the host list (commas split, entries trimmed, empty
\* entries dropped, order kept) is the first whose healthcheck succeeds,
\* resolve_host sets host to entry N and its probes are exactly entries 1..N,
\* in order, once each.
C1_FirstReachableSelected ==
    op = "resolve_host" =>
        /\ HostList(hosts) = Entries(hosts)
        /\ LET hl == Entries(hosts)
               oks == {i \in 1..Len(hl) : oc[i] = "ok"}
           IN oks # {} =>
                LET N == Min(oks)
                IN /\ ResolvedClient.host = hl[N]
                   /\ Len(http) = N
                   /\ \A i \in 1..N :
                        /\ http[i].via = "healthcheck"
                        /\ http[i].client = call[1]
                        /\ http[i].host = hl[i]

\* the second of two different hosts is the first reachable one and was chosen
C1_Witness ==
    /\ op = "resolve_host"
    /\ Len(Entries(hosts)) = 2
    /\ Entries(hosts)[1] # Entries(hosts)[2]
    /\ oc[1] # "ok"
    /\ oc[2] = "ok"
    /\ ResolvedClient.host = Entries(hosts)[2]
    /\ Len(http) = 2

-----------------------------------------------------------------------------
(* Claims about the facade (Spec) *)

NoneOk(outcomes) == \A i \in 1..Len(outcomes) : outcomes[i] # "ok"

IsResolveError(r, service, hs) ==
    /\ r.kind = "raise"
    /\ r.exc = "ValueError"
    /\ r.msg = <<"Unable to resolve host for", service, "from", hs, "list">>

FirstUseFails(before, after, service) ==
    (~before.exists /\ after.exists /\ NoneOk(oc'))
        => IsResolveError(result', service, hosts) /\ after.host = <<>>

\* C2: when no host of the list passes the healthcheck (the empty list
\* included), the first operation that needs a service client raises the
\* resolution error naming the service and the host list, and that client's
\* host stays unset.
C2_NoReachableHostRaises ==
    [][ /\ FirstUseFails(rest_cli, rest_cli', "data service")
        /\ FirstUseFails(n1ql_cli, n1ql_cli', "query service") ]_vars

\* two hosts were probed, none passed, the operation raised
C2_Witness ==
    /\ op = "get_buckets"
    /\ Len(oc) = 2
    /\ NoneOk(oc)
    /\ Len(http) = 2
    /\ IsResolveError(result, "data service", hosts)
    /\ rest_cli.exists
    /\ rest_cli.host = <<>>

RestOps == {"get_buckets", "add_bucket", "get_system_info", "create_user",
            "rest_client.exec_api"}

\* C3: no exec_api request ever goes out through a client whose host is
\* unset; an operation whose client has no host raises the resolution error,
\* on the first call and on every later one.
C3_NoCallOnUnsetHost ==
    /\ \A i \in 1..Len(http) : http[i].via = "exec_api" => http[i].host # <<>>
    /\ (op \in RestOps /\ rest_cli.host = <<>>)
            => IsResolveError(result, "data service", hosts)
    /\ (op = "exec_query" /\ n1ql_cli.host = <<>>)
            => IsResolveError(result, "query service", hosts)

Probes(requests, client) ==
    SelectSeq(requests, LAMBDA q : q.via = "healthcheck" /\ q.client = client)

KeepsHost(before, after, client) ==
    (before.exists /\ before.host # <<>>)
        => after = before /\ Probes(http', client) = <<>>

\* C4: once a service client has a host, every later operation leaves that
\* client and its host as they are and sends no healthcheck for that service,
\* however the operation ends.
C4_ResolvedHostKept ==
    [][ /\ KeepsHost(rest_cli, rest_cli', "rest")
        /\ KeepsHost(n1ql_cli, n1ql_cli', "n1ql") ]_vars

\* a later operation on a resolved client failed in transport; the host stayed
C4_Witness ==
    /\ op = "get_buckets"
    /\ oc = <<>>
    /\ rest_cli.host # <<>>
    /\ result.kind = "raise"
    /\ result.exc = "ConnectionError"
    /\ Len(http) = 1

ExecRequests == SelectSeq(http, LAMBDA q : q.via = "exec_api")

\* C5: RestClient.exec_api with a method other than GET, POST, PUT (or none)
\* raises the unsupported-method error and sends nothing; with one of the
\* three it sends exactly one request, of that method, to the client's host.
C5_UnsupportedMethodNoRequest ==
    (op = "rest_client.exec_api" /\ ~IsResolveError(result, "data service", hosts)) =>
        IF call[1] \in {"GET", "POST", "PUT"}
        THEN /\ Len(ExecRequests) = 1
             /\ ExecRequests[1].method = call[1]
             /\ ExecRequests[1].client = "rest"
             /\ ExecRequests[1].host = rest_cli.host
        ELSE /\ result.kind = "raise"
             /\ result.exc = "ValueError"
             /\ result.msg = <<"Unsupported method", call[1]>>
             /\ ExecRequests = <<>>

\* DELETE was asked of a resolved client: raised, nothing sent
C5_Witness ==
    /\ op = "rest_client.exec_api"
    /\ call[1] = "DELETE"
    /\ rest_cli.host # <<>>
    /\ result.kind = "raise"
    /\ result.msg = <<"Unsupported method", "DELETE">>
    /\ ExecRequests = <<>>

\* C7: with a resolved data-service host, get_system_info returns the empty
\* mapping on a non-success response and the decoded body on a success
\* response; every other operation returns the response itself, whatever its
\* status.
C7_NonSuccessHandling ==
    (resp.t = "response" /\ ~resp.raised) =>
        /\ (op = "get_system_info" /\ rest_cli.host # <<>>) =>
              /\ ~resp.ok => result = Return(PyDict(<<>>))
              /\ (resp.ok /\ resp.text = "{\"implementationVersion\": \"6.6.0\", \"nodes\": []}")
                    => result = Return(SysInfoDoc)
        /\ op \in {"get_buckets", "add_bucket", "exec_query", "create_user"}
              => result = Return(resp)

\* get_system_info met a non-success response with a JSON body: empty mapping
C7_Witness ==
    /\ op = "get_system_info"
    /\ rest_cli.host # <<>>
    /\ resp.t = "response"
    /\ ~resp.ok
    /\ resp.text = "{\"errors\": \"unauthorized\"}"
    /\ result = Return(PyDict(<<>>))

-----------------------------------------------------------------------------
(* Claims about build_n1ql_request_body (SpecBody) *)

\* the JSON text of each sample value, written out
JsonText(v) ==
    CASE v.t = "int" /\ v.v = 5 -> "5"
      [] v.t = "str" /\ v.v = "a" -> "\"a\""
      [] v.t = "none" -> "null"
      [] v.t = "list" -> "[1, \"b\"]"

RECURSIVE JsonArrayItems(_)
JsonArrayItems(a) ==
    IF Len(a) = 1 THEN JsonText(a[1])
    ELSE JsonText(a[1]) \o ", " \o JsonArrayItems(Tail(a))

JsonArrayText(a) == "[" \o JsonArrayItems(a) \o "]"

BuiltKeys == {built[i][1] : i \in 1..Len(built)}
BuiltValue(k) == built[CHOOSE i \in 1..Len(built) : built[i][1] = k][2]

\* C6: the body's keys are "statement", "args" exactly when a positional
\* argument was given, and "$<name>" for each named argument; "statement" is
\* the query, "args" the JSON array of the positional arguments, "$<name>"
\* the JSON text of that argument's value.
C6_RequestBodyShape ==
    op = "build_n1ql_request_body" =>
        LET q == call[1]
            a == call[2]
            kw == call[3]
        IN /\ BuiltKeys = {"statement"}
                            \cup (IF a # <<>> THEN {"args"} ELSE {})
                            \cup {"$" \o kw[j][1] : j \in 1..Len(kw)}
           /\ Len(built) = Cardinality(BuiltKeys)
           /\ BuiltValue("statement") = PyStr(q)
           /\ a # <<>> => BuiltValue("args") = PyStr(JsonArrayText(a))
           /\ \A j \in 1..Len(kw) :
                BuiltValue("$" \o kw[j][1]) = PyStr(JsonText(kw[j][2]))

\* build_n1ql_request_body("SELECT $x", x=5) gave "$x": "5" and no "args"
C6_Witness ==
    /\ op = "build_n1ql_request_body"
    /\ call = <<"SELECT $x", <<>>, <<<<"x", PyInt(5)>>>>>>
    /\ built = <<<<"statement", PyStr("SELECT $x")>>, <<"$x", PyStr("5")>>>>

-----------------------------------------------------------------------------
(* Claims about the relational client (SpecSQL) *)

\* the table the last operation named and the error it met
LastTable == call[1]
LastError == dberr[1]

\* the last operation executed its statement and the database refused it
StatementFailed == sql # <<>> /\ dberr # <<>>

\* C8: once create_table has returned normally after the database answered
\* that the table already exists, the table can be inserted into, whatever
\* the cached metadata held before: an insert of any row that the database
\* accepts issues its INSERT and returns normally.
C8_ExistingTableUsable ==
    (op = "create_table" /\ StatementFailed /\ result = Return(PyNone)) =>
        \A row \in Rows :
            LET r == insert_into(sql_cli, db, LastTable, row, TRUE, <<>>)
            IN /\ r.result = Return(PyNone)
               /\ Len(r.sql) = 1
               /\ r.sql[1].verb = "INSERT"

\* the code of the duplicate-object error an operation tolerates, by engine
ExpectedCode(adapter, operation) ==
    IF adapter = "PostgresqlAdapter"
    THEN CASE operation = "create_table" -> "42P07"
           [] operation = "create_index" -> "42P07"
           [] operation = "insert_into"  -> "23505"
    ELSE CASE operation = "create_table" -> 1050
           [] operation = "create_index" -> 1061
           [] operation = "insert_into"  -> 1062

\* C9: in create_table, create_index and insert_into an error of the database
\* is treated as success exactly when the statement raised it and its code is
\* the one expected for that engine and operation; every other database error
\* leaves the operation as the same exception, unmodified.
C9_SwallowOnlyExpectedCode ==
    (op \in {"create_table", "create_index", "insert_into"} /\ dberr # <<>>) =>
        IF sql # <<>> /\ LastError.code = ExpectedCode(sql_cli.adapter, op)
        THEN result = Return(PyNone)
        ELSE result = [kind |-> "raise", exc |-> LastError.cls, msg |-> <<LastError>>,
                       value |-> NoResponse]

\* MySQL answered CREATE INDEX with 1061 (duplicate key name): success
C9_Witness ==
    /\ op = "create_index"
    /\ sql_cli.adapter = "MysqlAdapter"
    /\ StatementFailed
    /\ LastError.code = 1061
    /\ result = Return(PyNone)

\* the INSERT the last insert_into issued carries, for every column of the
\* table: the value of the caller if the row has one, the empty JSON default
\* of the engine if the row has none and the column is one of `json_columns`
InsertCarries(json_columns) ==
    LET row == call[2]
        sent == sql[1].payload
        columns == db[LastTable]
        default == IF sql_cli.adapter = "MysqlAdapter"
                   THEN [t |-> "dict", v |-> <<<<"v", [t |-> "list", v |-> <<>>]>>>>]
                   ELSE [t |-> "list", v |-> <<>>]
    IN \A i \in 1..Len(columns) :
         LET col == columns[i][1]
         IN /\ col \in DOMAIN row => (col \in DOMAIN sent /\ sent[col] = row[col])
            /\ (col \notin DOMAIN row /\ columns[i][2] \in json_columns)
                  => (col \in DOMAIN sent /\ sent[col] = default)

-----------------------------------------------------------------------------
(* Claims about the configuration helpers (SpecConfig) *)

\* the value of an environment variable, or `default` when it is not set
Setting(name, default) == IF name \in DOMAIN env THEN env[name] ELSE default

LogicalNames == {"default", "user", "cache", "site", "token", "session"}

\* C11: get_couchbase_mappings returns, for persistence type "hybrid", the six
\* logical names minus exactly the one equal to ldap_mapping, and for every
\* other persistence type all six, each once; the bucket of "default" is the
\* prefix p and the bucket of every other name is p followed by "_<name>".
C11_BucketMapping ==
    op = "get_couchbase_mappings" =>
        LET persistence_type == call[1]
            ldap_mapping == call[2]
            mappings == result.value
            p == Setting("GLUU_COUCHBASE_BUCKET_PREFIX", "gluu")
        IN /\ result.kind = "return"
           /\ {mappings[i][1] : i \in 1..Len(mappings)} =
                 IF persistence_type = "hybrid" THEN LogicalNames \ {ldap_mapping}
                 ELSE LogicalNames
           /\ \A i, j \in 1..Len(mappings) : mappings[i][1] = mappings[j][1] => i = j
           /\ \A i \in 1..Len(mappings) :
                 mappings[i][2].bucket =
                    IF mappings[i][1] = "default" THEN p ELSE p \o "_" \o mappings[i][1]

\* hybrid with ldap_mapping "user" and prefix "jans": five names, no "user"
C11_Witness ==
    /\ op = "get_couchbase_mappings"
    /\ call = <<"hybrid", "user">>
    /\ Setting("GLUU_COUCHBASE_BUCKET_PREFIX", "gluu") = "jans"
    /\ Len(result.value) = 5
    /\ result.value[1] = <<"default", [bucket |-> "jans", mapping |-> ""]>>
    /\ result.value[2] = <<"cache", [bucket |-> "jans_cache", mapping |-> "cache"]>>

\* C12: the bucket list that render_couchbase_properties renders has the
\* prefix (the default bucket) as its first entry and nowhere else, for every
\* persistence type, ldap_mapping and prefix, also when "default" was excluded
\* from the mapping.
C12_DefaultBucketFirst ==
    (op = "render_couchbase_properties" /\ result.kind = "return") =>
        LET buckets == written[1].bucket_list
            p == Setting("GLUU_COUCHBASE_BUCKET_PREFIX", "gluu")
        IN /\ Len(buckets) >= 1
           /\ buckets[1] = p
           /\ \A i \in 2..Len(buckets) : buckets[i] # p
           /\ written[1].default_bucket = p

\* hybrid with ldap_mapping "default": the prefix was inserted in front of the
\* five remaining buckets
C12_Witness ==
    /\ op = "render_couchbase_properties"
    /\ result.kind = "return"
    /\ Setting("GLUU_PERSISTENCE_TYPE", "couchbase") = "hybrid"
    /\ Setting("GLUU_PERSISTENCE_LDAP_MAPPING", "default") = "default"
    /\ written[1].bucket_list =
          <<"gluu", "gluu_user", "gluu_cache", "gluu_site", "gluu_token", "gluu_session">>
    /\ written[1].couchbase_buckets =
          "gluu, gluu_user, gluu_cache, gluu_site, gluu_token, gluu_session"

\* C13: get_couchbase_scan_consistency never raises and returns the value of
\* the variable when it is one of not_bounded, request_plus, statement_plus,
\* and not_bounded for every other value and when the variable is not set.
C13_ScanConsistency ==
    op = "get_couchbase_scan_consistency" =>
        LET value == Setting("GLUU_COUCHBASE_SCAN_CONSISTENCY", "not_bounded")
        IN /\ result.kind = "return"
           /\ result.value.v \in {"not_bounded", "request_plus", "statement_plus"}
           /\ result.value.v =
                 IF value \in {"not_bounded", "request_plus", "statement_plus"} THEN value
                 ELSE "not_bounded"

\* the variable holds a value that is none of the three: not_bounded
C13_Witness ==
    /\ op = "get_couchbase_scan_consistency"
    /\ "GLUU_COUCHBASE_SCAN_CONSISTENCY" \in DOMAIN env
    /\ env["GLUU_COUCHBASE_SCAN_CONSISTENCY"] = "REQUEST_PLUS"
    /\ result = Return(PyStr("not_bounded"))

\* the content of a file without its leading and trailing whitespace
Stripped(chars) ==
    LET solid == {i \in 1..Len(chars) : chars[i] \notin {" ", "\n", "\t"}}
    IN IF solid = {} THEN <<>> ELSE SubSeq(chars, Min(solid), Max(solid))

SqlPasswordFile == "/etc/gluu/conf/sql_password"

\* C14: without its password file get_sql_password returns "" and does not
\* raise, and engine_url and render_sql_properties go on with the empty
\* password; with the file it returns the content stripped of surrounding
\* whitespace.  The two Couchbase password resolvers raise when their file is
\* missing.
C14_SqlPasswordFileOptional ==
    /\ op = "get_sql_password" =>
          result = IF SqlPasswordFile \in DOMAIN fs
                   THEN Return(PyStr(str_of(Stripped(fs[SqlPasswordFile]))))
                   ELSE Return(PyStr(""))
    /\ (op = "engine_url" /\ SqlPasswordFile \notin DOMAIN fs) =>
          result = Return(PyStr((IF sql_cli.adapter = "MysqlAdapter" THEN "mysql+pymysql"
                                 ELSE "postgresql+psycopg2")
                                \o "://gluu:@localhost:3306/"
                                \o Setting("GLUU_SQL_DB_NAME", "gluu")))
    /\ (op = "render_sql_properties" /\ call[1] \in DOMAIN fs
            /\ SqlPasswordFile \notin DOMAIN fs) =>
          /\ result = Return(PyNone)
          /\ written[1].rdbm_password_enc = [encoded |-> "", key |-> "salt"]
    /\ (op = "get_couchbase_password"
            /\ "/etc/gluu/conf/couchbase_password" \notin DOMAIN fs) =>
          (result.kind = "raise" /\ result.exc = "FileNotFoundError")
    /\ (op = "get_couchbase_superuser_password"
            /\ "/etc/gluu/conf/couchbase_superuser_password" \notin DOMAIN fs) =>
          (result.kind = "raise" /\ result.exc = "FileNotFoundError")

\* a password file with whitespace around the password: the password alone
C14_WitnessStripped ==
    /\ op = "get_sql_password"
    /\ SqlPasswordFile \in DOMAIN fs
    /\ fs[SqlPasswordFile] = <<" ", "p", "w", "\n">>
    /\ result = Return(PyStr("pw"))

\* the password file is missing: get_sql_password gave ""
C14_Witness ==
    /\ op = "get_sql_password"
    /\ SqlPasswordFile \notin DOMAIN fs
    /\ result = Return(PyStr(""))

\* C20: the engine of the adapter that SQLClient chose and the engine that
\* render_sql_properties renders are the same for every accepted dialect
\* selector: with the PostgreSQL adapter rdbm_type is "postgresql" and the
\* default schema "public", with the MySQL adapter rdbm_type is "mysql" and
\* the default schema the database name.
C20_SelectorNamesOneEngine ==
    (op = "render_sql_properties" /\ result.kind = "return") =>
        LET default_schema == Setting("GLUU_SQL_DB_SCHEMA", "") = ""
        IN IF sql_cli.adapter = "PostgresqlAdapter"
           THEN /\ written[1].rdbm_type = "postgresql"
                /\ default_schema => written[1].rdbm_schema = "public"
           ELSE /\ written[1].rdbm_type = "mysql"
                /\ default_schema =>
                      written[1].rdbm_schema = Setting("GLUU_SQL_DB_NAME", "gluu")

-----------------------------------------------------------------------------
(* Claims about the service clients under an environment (SpecClients) *)

\* the spellings of a flag that enable it
Truthy == {"t", "T", "true", "True", "TRUE", "1"}

\* TLS is enabled unless the flag is set to something that is not truthy
TlsEnabled ==
    "GLUU_COUCHBASE_TRUSTSTORE_ENABLE" \in DOMAIN env
        => env["GLUU_COUCHBASE_TRUSTSTORE_ENABLE"] \in Truthy

\* C15: whatever the TLS flag, every request of the data-service client goes
\* to https and port 18091 when TLS is enabled (the default) and to http and
\* port 8091 when it is disabled, every request of the query-service client to
\* https and 18093 or to http and 8093; healthcheck and exec_api requests of
\* one client have the same scheme and port.
C15_SchemeAndPortAgree ==
    /\ \A i \in 1..Len(http) :
          /\ http[i].scheme = IF TlsEnabled THEN "https" ELSE "http"
          /\ http[i].port = IF http[i].client = "rest"
                            THEN (IF TlsEnabled THEN 18091 ELSE 8091)
                            ELSE (IF TlsEnabled THEN 18093 ELSE 8093)
    /\ \A i, j \in 1..Len(http) :
          http[i].client = http[j].client
              => http[i].scheme = http[j].scheme /\ http[i].port = http[j].port

\* TLS disabled: the query-service client, resolved by a healthcheck on 8093,
\* executes a request on http and 8093
C15_Witness ==
    /\ ~TlsEnabled
    /\ op = "exec_api"
    /\ call[1] = "n1ql"
    /\ n1ql_cli.host # <<>>
    /\ Len(http) = 1
    /\ http[1].via = "exec_api"
    /\ http[1].scheme = "http"
    /\ http[1].port = 8093

\* TLS enabled by default: a healthcheck of the data service on https, 18091
C15_WitnessTls ==
    /\ "GLUU_COUCHBASE_TRUSTSTORE_ENABLE" \notin DOMAIN env
    /\ op = "resolve_host"
    /\ call[1] = "rest"
    /\ http # <<>>
    /\ http[1].via = "healthcheck"
    /\ http[1].scheme = "https"
    /\ http[1].port = 18091

VerifyEnabled ==
    "GLUU_COUCHBASE_VERIFY" \in DOMAIN env /\ env["GLUU_COUCHBASE_VERIFY"] \in Truthy

\* the value of a variable that is set and not empty, `default` otherwise
NonEmptySetting(name, default) ==
    IF Setting(name, "") = "" THEN default ELSE env[name]

\* what the environment dictates for a session
SessionConfigured(s) ==
    IF VerifyEnabled
    THEN /\ s.verify = PyStr(NonEmptySetting("GLUU_COUCHBASE_CERT_FILE",
                                             "/etc/certs/couchbase.crt"))
         /\ s.host_header = <<NonEmptySetting("GLUU_COUCHBASE_HOST_HEADER", "localhost")>>
    ELSE /\ s.verify = PyBool(FALSE)
         /\ s.host_header = <<>>

OneSession(cli, client) ==
    /\ cli.created <= 1
    /\ cli.session # <<>> => cli.created = 1 /\ SessionConfigured(cli.session[1])
    /\ \A i \in 1..Len(http) :
          http[i].client = client => cli.session = <<http[i].session>>

SessionKept(before, after) == before.session # <<>> => after.session = before.session

\* C18: a service client constructs at most one session; every healthcheck
\* and exec_api request of the client is sent through that one session; the
\* session verifies nothing unless the verification flag is enabled, and then
\* it carries the certificate path and the Host header of the environment; no
\* later call replaces or changes the session.
C18_OneSessionPerClient ==
    /\ [](OneSession(rest_cli, "rest") /\ OneSession(n1ql_cli, "n1ql"))
    /\ [][SessionKept(rest_cli, rest_cli') /\ SessionKept(n1ql_cli, n1ql_cli')]_vars

\* verification enabled with a certificate path: the data-service client has
\* resolved a host and then executed a request, both through its one session
C18_Witness ==
    /\ VerifyEnabled
    /\ "GLUU_COUCHBASE_CERT_FILE" \in DOMAIN env
    /\ op = "exec_api"
    /\ call[1] = "rest"
    /\ rest_cli.host # <<>>
    /\ rest_cli.created = 1
    /\ http # <<>>
    /\ http[1].session = rest_cli.session[1]
    /\ http[1].session.verify = PyStr(env["GLUU_COUCHBASE_CERT_FILE"])

-----------------------------------------------------------------------------
(* Claims about failing probes (SpecResolve) *)

\* the entries resolve_host probes: up to the first that passes, all if none
LastProbed ==
    LET oks == {i \in 1..Len(oc) : oc[i] = "ok"}
    IN IF oks = {} THEN Len(oc) ELSE Min(oks)

\* the probed entries that failed: all before the first that passes
FailedProbes == {i \in 1..LastProbed : oc[i] # "ok"}

\* no failing probe ends resolve_host: each is followed by the probe of the
\* next entry and leaves one warning naming its host; resolve_host returns
\* the client's host
FailuresLoggedAndPassed ==
    op = "resolve_host" =>
        LET hl == HostList(hosts)
        IN /\ result.kind = "return"
           /\ result.value = ResolvedClient.host
           /\ Len(http) = LastProbed
           /\ \A i \in 1..LastProbed : http[i].host = hl[i]
           /\ Len(log) = Cardinality(FailedProbes)
           /\ \A i \in FailedProbes :
                 /\ log[i].level = "warning"
                 /\ log[i].host = hl[i]
                 /\ log[i].port = http[i].port

\* C16 as stated: a probe that raises or answers with a non-success response
\* never ends resolve_host and never reaches the caller; a warning is logged
\* for that host and the next host is probed; resolve_host returns the
\* client's host, which is unset whenever every probe failed.
C16_UnsetWheneverAllFail ==
    /\ FailuresLoggedAndPassed
    /\ (op = "resolve_host" /\ NoneOk(oc)) => result.value = <<>>

HostKeptWhenAllFail(before, after, kind) ==
    (call'[1] = kind /\ NoneOk(oc')) => after.host = before.host

\* C16, amended: a probe that raises or answers with a non-success response
\* never ends resolve_host and never reaches the caller; a warning is logged
\* for that host and the next host is probed; resolve_host returns the
\* client's host, and when every probe failed that is the host the client had
\* before the call: unset for a client that never resolved one.
C16_FailedProbesPassedOver ==
    /\ []FailuresLoggedAndPassed
    /\ [][ /\ HostKeptWhenAllFail(rest_cli, rest_cli', "rest")
           /\ HostKeptWhenAllFail(n1ql_cli, n1ql_cli', "n1ql") ]_vars

\* the probe of the first host raised, the probe of the second answered with
\* a non-success response: two warnings, no error, host unset
C16_Witness ==
    /\ op = "resolve_host"
    /\ oc = <<"raise", "notok">>
    /\ Len(http) = 2
    /\ Len(log) = 2
    /\ log[1].reason = "ConnectionError"
    /\ log[2].reason = "Unauthorized"
    /\ result = Return(<<>>)

-----------------------------------------------------------------------------
(* Claims about the metadata cache and the adapters (SpecSQL) *)

\* C17: the metadata is reflected on its first read and reused by later
\* reads, which do not reflect again; create_table forces a re-reflection, so
\* after any create_table that returned normally the table mapping contains
\* the table it named.
C17_CreateTableRefreshesMapping ==
    /\ sql_cli.metadata.exists => get_table_mapping(sql_cli, db).cli = sql_cli
    /\ (op = "create_table" /\ result = Return(PyNone))
            => LastTable \in DOMAIN get_table_mapping(sql_cli, db).result.value

\* C19: the PostgreSQL adapter supplies every capability the MySQL adapter
\* supplies, the server-version query included: with either adapter
\* server_version sends the adapter's version query and returns the answer
\* whenever the engine connects, and get_server_version fails only on a
\* connection error or on an answer whose numbers cannot be read.
C19_AdaptersInterchangeable ==
    /\ (op = "server_version" /\ dberr = NoError)
            => /\ result = Return(PyStr(call[1]))
               /\ Len(sql) = 1
    /\ (op = "get_server_version" /\ dberr = NoError)
            => /\ result.exc \in {"", "ValueError"}
               /\ Len(sql) = 1

-----------------------------------------------------------------------------
(* Claims about the truststore password (SpecConfig) *)

\* the truststore password the secret store holds: <<>> when it holds none or
\* an empty one
StoredTruststorePw(store) ==
    IF "couchbase_truststore_pw" \in DOMAIN store /\ store["couchbase_truststore_pw"] # ""
    THEN <<store["couchbase_truststore_pw"]>> ELSE <<>>

\* the truststore password the last operation returned, gave to the key
\* store, or rendered (encoded); <<>> if it used none
TruststorePwUsed ==
    IF result.kind # "return" THEN <<>>
    ELSE CASE op = "resolve_couchbase_truststore_pw" -> <<result.value.v>>
           [] op = "sync_couchbase_truststore" -> <<written[1].storepass>>
           [] op = "render_couchbase_properties" ->
                  <<written[1].encoded_couchbaseTrustStorePass.encoded>>
           [] OTHER -> <<>>

\* a step keeps the stored password; if none was stored and the step resolved
\* one, the step stored a generated one
GetOrCreate ==
    /\ StoredTruststorePw(secret) # <<>> => secret' = secret
    /\ (StoredTruststorePw(secret) = <<>> /\ TruststorePwUsed' # <<>>)
            => /\ TruststorePwUsed'[1] \in GeneratedPasswords
               /\ StoredTruststorePw(secret') = TruststorePwUsed'
    /\ (StoredTruststorePw(secret) = <<>> /\ TruststorePwUsed' = <<>>) => secret' = secret

\* C21: resolve_couchbase_truststore_pw is get-or-create: with a non-empty
\* password stored it returns that password and writes nothing; with none
\* stored it generates one, stores it and returns it.  So every call on one
\* secret store (direct, rendering the properties, syncing the truststore)
\* uses the password that is stored after it, and once a password is stored no
\* call replaces it: all calls use the same password.
C21_TruststorePwGetOrCreate ==
    /\ [](TruststorePwUsed # <<>> => TruststorePwUsed = StoredTruststorePw(secret))
    /\ [][GetOrCreate]_vars

\* nothing was stored at first; a call generated and stored k1, and the
\* truststore synced afterwards, offered k2, used the stored k1
C21_Witness ==
    /\ op = "sync_couchbase_truststore"
    /\ call[2] = "k2"
    /\ written[1].storepass = "k1"
    /\ StoredTruststorePw(secret) = <<"k1">>

====
